---- MODULE Spec2Model ----
(***************************************************************************)
(* The control tree of rectangular-forms: AbstractControl                  *)
(* (src/src/model/abstract_model.ts) and FormControl                       *)
(* (src/src/model/form_control.ts).  The composite node kinds (FormGroup,  *)
(* FormArray) are not part of the sources at hand; their kind-specific     *)
(* hooks (_forEachChild, _anyControls, _allControlsDisabled, _updateValue, *)
(* _find) and operations follow sections 3, 4.3 and 4.4 of the             *)
(* specification and the documentation of AbstractControl.value.           *)
(*                                                                         *)
(* The tree is   grp -> {name, age}.                                       *)
(*   name : leaf, required validator and an asynchronous validator         *)
(*   age  : leaf, required validator                                       *)
(*   grp  : group (the root), no validators                                *)
(*                                                                         *)
(* Operations are functions from tree state to tree state (records with    *)
(* one field per variable, plus trace: the events emitted on valueChanges  *)
(* and statusChanges while the operation runs).  An action applies one     *)
(* operation to the current state.                                         *)
(***************************************************************************)
EXTENDS Integers, Sequences, FiniteSets, TLC

VARIABLES parent, controls, validator, asyncValidator,
          value, pendingValue, status, errors, hasOwnPending,
          pristine, touched, sub, inflight,
          pendingDirty, pendingTouched, pendingChange,
          updateOn, defaultValue, forceUpdate, load, formConfig

vars == <<parent, controls, validator, asyncValidator,
          value, pendingValue, status, errors, hasOwnPending,
          pristine, touched, sub, inflight,
          pendingDirty, pendingTouched, pendingChange,
          updateOn, defaultValue, forceUpdate, load, formConfig>>

\* ------------------------------------------------------------------ bounds
\* Largest number of asynchronous validator runs of one node that may be
\* in flight (started, result not yet arrived) when an operation is invoked.
MaxInFlight == 2

\* ------------------------------------------------------------ constants
VALID == "VALID"
INVALID == "INVALID"
PENDING == "PENDING"
DISABLED == "DISABLED"

None == "none"
Nodes == {"grp", "name", "age"}
Leaves == {"name", "age"}
\* Every control object: the nodes above and an outer group, which stays
\* detached and unused unless a deeper tree  form -> grp -> {name, age}  is
\* built.
\* An array, arr, may hold the leaves instead of grp.
Controls == Nodes \cup {"form", "arr"}
IsLeaf(n) == n \in Leaves
IsArray(n) == n = "arr"

\* Leaf payloads: null and a non-empty value.
NullValue == "null"
Vals == {NullValue, "x"}

\* errors: a set of error keys; the empty set stands for null.
NoErrors == {}
AsyncResults == {NoErrors, {"taken"}}
ManualErrors == {NoErrors, {"server"}}

\* What an asynchronous validator call produces: its result, and whether
\* the returned observable delivers it during subscribe() (immediate) or
\* at a later time.
AsyncOutcome == [result : AsyncResults, immediate : BOOLEAN]
AsyncNodes == {"name"}
Deferred == [result |-> NoErrors, immediate |-> FALSE]

\* -------------------------------------- the asynchronous operation tracker
\* The values handed to the tracker, named after the program's values:
\* undefined, the number 0 and the number 5.
Undefined == "undefined"
Payloads == {Undefined, "0", "5"}

\* The values a condition takes for false.
Falsy == {Undefined, "0"}

\* new AsyncProcessor(forceUpdate?): calls lists the callbacks invoked by
\* the operation under way, a forceUpdate with the status it could see.
NewAsyncProcessor(installed) ==
  [status |-> "", data |-> Undefined, error |-> Undefined, params |-> Undefined,
   installed |-> installed, calls |-> << >>]

\* forceUpdate && forceUpdate()
CallInstalled(t) ==
  IF t.installed THEN [t EXCEPT !.calls = Append(@, <<"forceUpdate", t.status>>)]
  ELSE t

\* Fault model: the state changes without a re-render.
processingSilently(t, p) == [t EXCEPT !.params = p, !.status = "PROCESSING"]

processing(t, p) == CallInstalled([t EXCEPT !.params = p, !.status = "PROCESSING"])

\* Fault model: a success clears the error of an earlier failure.
succeedClearingError(t, d) ==
  CallInstalled([t EXCEPT !.data = d, !.error = Undefined, !.status = "SUCCESS"])

succeed(t, d) == CallInstalled([t EXCEPT !.data = d, !.status = "SUCCESS"])

failed(t, e) == CallInstalled([t EXCEPT !.error = e, !.status = "FAILURE"])

\* retry(callback, params?): callback(this.triggers, params || this.params);
\* the callback is recorded with the params it is handed.
retry(t, p) ==
  [t EXCEPT !.calls = Append(@, <<"callback", IF p \in Falsy THEN t.params ELSE p>>)]

\* ---------------------------------------------- the form configuration
\* A form as the configuration sees it: the data createForm made it from,
\* whether createForm was handed a previous form, and whether forceUpdate is
\* installed on it.  NullForm stands for the form field before any load.
NullForm == [created |-> FALSE, from |-> Undefined, old |-> FALSE, forceUpdate |-> FALSE]

\* The createForm function of the configuration.
createForm(data, oldForm) ==
  [created |-> TRUE, from |-> data, old |-> oldForm.created, forceUpdate |-> FALSE]

\* new FormConfig(config, forceUpdate) besides its load tracker: the form,
\* whether config.onFormLoaded is given, the data captured by the scheduled
\* callbacks in the order their timers expire, and the calls of onFormLoaded
\* made by the step under way, each with the form and the data it was handed.
NewFormConfig(onFormLoaded) ==
  [form |-> NullForm, onFormLoaded |-> onFormLoaded, timers |-> << >>,
   loaded |-> << >>]

\* FormConfig.loadSucceed(data)
loadSucceed(s, data) ==
  LET create(s1) == [s1 EXCEPT !.formConfig.form =
                       [createForm(data, @) EXCEPT !.forceUpdate = TRUE]]
      render(s2) == [s2 EXCEPT !.load.calls = Append(@, <<"forceUpdate", s2.load.status>>)]
      defer(s3) == IF s3.formConfig.onFormLoaded
                   THEN [s3 EXCEPT !.formConfig.timers = Append(@, data)]
                   ELSE s3
  IN defer(render(create([s EXCEPT !.load = succeed(@, data)])))

\* The timer set first expires: () => onFormLoaded(this.form, data).
timeout(s) ==
  [s EXCEPT !.formConfig.loaded = Append(@, <<s.formConfig.form, Head(s.formConfig.timers)>>),
            !.formConfig.timers = Tail(@)]

\* ------------------------------------------------------------ the state
Cur ==
  [parent |-> parent, controls |-> controls,
   validator |-> validator, asyncValidator |-> asyncValidator,
   value |-> value, pendingValue |-> pendingValue,
   status |-> status, errors |-> errors, hasOwnPending |-> hasOwnPending,
   pristine |-> pristine, touched |-> touched,
   sub |-> sub, inflight |-> inflight,
   pendingDirty |-> pendingDirty, pendingTouched |-> pendingTouched,
   pendingChange |-> pendingChange, updateOn |-> updateOn,
   defaultValue |-> defaultValue, forceUpdate |-> forceUpdate,
   load |-> load, formConfig |-> formConfig,
   trace |-> << >>, thrown |-> None, thrownKey |-> None, returned |-> FALSE]

Commit(s) ==
  /\ parent' = s.parent
  /\ controls' = s.controls
  /\ validator' = s.validator
  /\ asyncValidator' = s.asyncValidator
  /\ value' = s.value
  /\ pendingValue' = s.pendingValue
  /\ status' = s.status
  /\ errors' = s.errors
  /\ hasOwnPending' = s.hasOwnPending
  /\ pristine' = s.pristine
  /\ touched' = s.touched
  /\ sub' = s.sub
  /\ inflight' = s.inflight
  /\ pendingDirty' = s.pendingDirty
  /\ pendingTouched' = s.pendingTouched
  /\ pendingChange' = s.pendingChange
  /\ updateOn' = s.updateOn
  /\ defaultValue' = s.defaultValue
  /\ forceUpdate' = s.forceUpdate
  /\ load' = [s.load EXCEPT !.calls = << >>]
  /\ formConfig' = [s.formConfig EXCEPT !.loaded = << >>]

\* EventEmitter.emit on valueChanges / statusChanges of node n.
Emit(s, kind, n) == [s EXCEPT !.trace = Append(@, <<kind, n>>)]

ChildSet(s, n) == {s.controls[n][i] : i \in 1..Len(s.controls[n])}

\* ------------------------------------------------- kind-specific hooks
FormControl_allControlsDisabled(s, n) == s.status[n] = DISABLED

Composite_allControlsDisabled(s, n) ==
  IF s.controls[n] = <<>>
  THEN s.status[n] = DISABLED
  ELSE \A c \in ChildSet(s, n) : s.status[c] = DISABLED

_allControlsDisabled(s, n) ==
  IF IsLeaf(n) THEN FormControl_allControlsDisabled(s, n)
  ELSE Composite_allControlsDisabled(s, n)

\* A condition on controls is given as the set of controls satisfying it.
Composite_anyControls(s, n, condition) ==
  \E c \in ChildSet(s, n) : c \in condition

_anyControls(s, n, condition) ==
  IF IsLeaf(n) THEN FALSE ELSE Composite_anyControls(s, n, condition)

_anyControlsHaveStatus(s, n, st) ==
  _anyControls(s, n, {c \in Controls : s.status[c] = st})

_anyControlsDirty(s, n) ==
  _anyControls(s, n, {c \in Controls : ~s.pristine[c]})

_anyControlsTouched(s, n) ==
  _anyControls(s, n, {c \in Controls : s.touched[c]})


\* The value of a group: a key-value pair for each enabled child.
Composite_reduceValue(s, n) ==
  [c \in {d \in ChildSet(s, n) : s.status[d] # DISABLED} |-> s.value[c]]

\* The value of an array: the values of the enabled children, in order.
FormArray_reduceValue(s, n) ==
  LET enabled(c) == s.status[c] # DISABLED
      values(cs) == [i \in 1..Len(cs) |-> s.value[cs[i]]]
  IN values(SelectSeq(s.controls[n], enabled))

_updateValue(s, n) ==
  IF IsLeaf(n) THEN s
  ELSE IF IsArray(n) THEN [s EXCEPT !.value[n] = FormArray_reduceValue(s, n)]
  ELSE [s EXCEPT !.value[n] = Composite_reduceValue(s, n)]

\* getRawValue(): the value of a leaf; every child of a group or array,
\* disabled ones included.
RECURSIVE getRawValue(_, _)
getRawValue(s, n) ==
  IF IsLeaf(n) THEN s.value[n]
  ELSE IF IsArray(n)
       THEN [i \in 1..Len(s.controls[n]) |-> getRawValue(s, s.controls[n][i])]
  ELSE [c \in ChildSet(s, n) |-> getRawValue(s, c)]

\* --------------------------------------------------------- validators
Required(v) == IF v = NullValue THEN {"required"} ELSE NoErrors

\* Fault model: the synchronous validator is not run.
_runNoValidator(s, n) == NoErrors

_runValidator(s, n) ==
  IF s.validator[n] = "required" THEN Required(s.value[n]) ELSE NoErrors

\* --------------------------------------------------- status computation
_setInitialStatus(s, n) ==
  [s EXCEPT !.status[n] = IF _allControlsDisabled(s, n) THEN DISABLED ELSE VALID]

\* Fault models of _calculateStatus: a child's INVALID taking precedence
\* over PENDING, and the node's own pending flag being ignored.
_calculateStatusInvalidFirst(s, n) ==
  IF _allControlsDisabled(s, n) THEN DISABLED
  ELSE IF s.errors[n] # NoErrors THEN INVALID
  ELSE IF _anyControlsHaveStatus(s, n, INVALID) THEN INVALID
  ELSE IF s.hasOwnPending[n] \/ _anyControlsHaveStatus(s, n, PENDING) THEN PENDING
  ELSE VALID

_calculateStatusWithoutOwnPending(s, n) ==
  IF _allControlsDisabled(s, n) THEN DISABLED
  ELSE IF s.errors[n] # NoErrors THEN INVALID
  ELSE IF _anyControlsHaveStatus(s, n, PENDING) THEN PENDING
  ELSE IF _anyControlsHaveStatus(s, n, INVALID) THEN INVALID
  ELSE VALID

_calculateStatus(s, n) ==
  IF _allControlsDisabled(s, n) THEN DISABLED
  ELSE IF s.errors[n] # NoErrors THEN INVALID
  ELSE IF s.hasOwnPending[n] \/ _anyControlsHaveStatus(s, n, PENDING) THEN PENDING
  ELSE IF _anyControlsHaveStatus(s, n, INVALID) THEN INVALID
  ELSE VALID

EmitIf(s, emitEvent, kind, n) == IF emitEvent THEN Emit(s, kind, n) ELSE s

RECURSIVE _updateControlsErrors(_, _, _)
_updateControlsErrors(s, n, emitEvent) ==
  LET up(s2) == IF s2.parent[n] # None
                THEN _updateControlsErrors(s2, s2.parent[n], emitEvent)
                ELSE s2
  IN up(EmitIf([s EXCEPT !.status[n] = _calculateStatus(s, n)],
               emitEvent, "status", n))

\* Fault model: the status of the ancestors is not recomputed.
setErrorsOnlySelf(s, n, e, emitEvent) ==
  EmitIf([s EXCEPT !.errors[n] = e,
                   !.status[n] = _calculateStatus([s EXCEPT !.errors[n] = e], n)],
         emitEvent, "status", n)

setErrors(s, n, e, emitEvent) ==
  _updateControlsErrors([s EXCEPT !.errors[n] = e], n, emitEvent)

\* ------------------------------------------- asynchronous validator runs
\* inflight[n] holds the runs of node n whose result has not arrived yet:
\* the result the validator will deliver, the emitEvent captured by the
\* subscriber, whether the subscriber is still subscribed, and whether the
\* run is the one _asyncValidationSubscription refers to (handle).
\* sub[n] is _asyncValidationSubscription: "none" while unset, "live" when
\* it refers to a run of inflight[n], "done" when it refers to a run whose
\* result has arrived.
\* Fault models of cancellation: the subscriber stays subscribed; nothing
\* is cancelled at all.
UnsubscribeNothing(s, n) == s

_cancelNothing(s, n) == s

Unsubscribe(s, n) ==
  [s EXCEPT !.inflight[n] =
     {IF r.handle THEN [r EXCEPT !.subscribed = FALSE] ELSE r : r \in @}]

_cancelExistingSubscription(s, n) ==
  IF s.sub[n] # None
  THEN [Unsubscribe(s, n) EXCEPT !.hasOwnPending[n] = FALSE]
  ELSE s

\* Fault model: the subscriber does not keep the emitEvent of its call.
SubscribeLoud(s, n, emitEvent, out) ==
  [s EXCEPT
     !.inflight[n] = {[r EXCEPT !.handle = FALSE] : r \in @}
                     \cup {[result |-> out.result, emitEvent |-> TRUE,
                            subscribed |-> TRUE, handle |-> TRUE]},
     !.sub[n] = "live"]

\* obs.subscribe(callback): an observable that delivers during subscribe
\* runs the callback before the handle is stored, and the handle stored is
\* the one of a closed subscription; otherwise the run stays in flight.
\* Either way no earlier run is the handle any more.
Subscribe(s, n, emitEvent, out) ==
  IF out.immediate
  THEN [setErrors([s EXCEPT !.hasOwnPending[n] = FALSE], n, out.result, emitEvent)
          EXCEPT !.inflight[n] = {[r EXCEPT !.handle = FALSE] : r \in @},
                 !.sub[n] = "done"]
  ELSE [s EXCEPT
          !.inflight[n] = {[r EXCEPT !.handle = FALSE] : r \in @}
                          \cup {[result |-> out.result,
                                 emitEvent |-> emitEvent,
                                 subscribed |-> TRUE,
                                 handle |-> TRUE]},
          !.sub[n] = "live"]

_runAsyncValidator(s, n, emitEvent, out) ==
  IF s.asyncValidator[n]
  THEN Subscribe([s EXCEPT !.status[n] = PENDING, !.hasOwnPending[n] = TRUE],
                 n, emitEvent, out)
  ELSE s

\* av is the outcome of the asynchronous validator call, should this
\* recompute start one.
RECURSIVE updateValueAndValidity(_, _, _, _, _)
updateValueAndValidity(s, n, onlySelf, emitEvent, av) ==
  LET async(c) == IF c.status[n] \in {VALID, PENDING}
                  THEN _runAsyncValidator(c, n, emitEvent, av)
                  ELSE c
      calc(c) == [c EXCEPT !.status[n] = _calculateStatus(c, n)]
      validate(c) == [c EXCEPT !.errors[n] = _runValidator(c, n)]
      check(s1) == IF s1.status[n] # DISABLED
                   THEN async(calc(validate(_cancelExistingSubscription(s1, n))))
                   ELSE s1
      emit(s2) == EmitIf(EmitIf(s2, emitEvent, "value", n), emitEvent, "status", n)
      up(s3) == IF s3.parent[n] # None /\ ~onlySelf
                THEN updateValueAndValidity(s3, s3.parent[n], onlySelf, emitEvent, av)
                ELSE s3
  IN up(emit(check(_updateValue(_setInitialStatus(s, n), n))))

\* ------------------------------------------------- pristine / touched
RECURSIVE _updatePristine(_, _, _)
_updatePristine(s, n, onlySelf) ==
  LET up(s1) == IF s1.parent[n] # None /\ ~onlySelf
                THEN _updatePristine(s1, s1.parent[n], onlySelf)
                ELSE s1
  IN up([s EXCEPT !.pristine[n] = ~_anyControlsDirty(s, n)])

RECURSIVE _updateTouched(_, _, _)
_updateTouched(s, n, onlySelf) ==
  LET up(s1) == IF s1.parent[n] # None /\ ~onlySelf
                THEN _updateTouched(s1, s1.parent[n], onlySelf)
                ELSE s1
  IN up([s EXCEPT !.touched[n] = _anyControlsTouched(s, n)])

\* Fault model: the parent is never taken as marked dirty.
_parentNeverMarkedDirty(s, n, onlySelf) == FALSE

_parentMarkedDirty(s, n, onlySelf) ==
  /\ ~onlySelf
  /\ s.parent[n] # None
  /\ ~s.pristine[s.parent[n]]
  /\ ~_anyControlsDirty(s, s.parent[n])

\* Fault model: the ancestors are not recomputed.
_updateNoAncestors(s, n, onlySelf, emitEvent, skipPristineCheck, av) == s

_updateAncestors(s, n, onlySelf, emitEvent, skipPristineCheck, av) ==
  LET pristineCheck(s1) == IF ~skipPristineCheck
                           THEN _updatePristine(s1, s1.parent[n], FALSE)
                           ELSE s1
  IN IF s.parent[n] # None /\ ~onlySelf
     THEN _updateTouched(
            pristineCheck(
              updateValueAndValidity(s, s.parent[n], onlySelf, emitEvent, av)),
            s.parent[n], FALSE)
     ELSE s

\* ------------------------------------------------------ disable / enable
RECURSIVE disable(_, _, _, _, _)
RECURSIVE disableEach(_, _, _)
disableEach(s, cs, emitEvent) ==
  IF cs = <<>> THEN s
  ELSE disableEach(disable(s, Head(cs), TRUE, emitEvent, Deferred), Tail(cs), emitEvent)

disable(s, n, onlySelf, emitEvent, av) ==
  LET emit(s3) == EmitIf(EmitIf(s3, emitEvent, "value", n), emitEvent, "status", n)
      children(s1) == disableEach(s1, s1.controls[n], emitEvent)
  IN _updateAncestors(
       emit(_updateValue(
              children([s EXCEPT !.status[n] = DISABLED, !.errors[n] = NoErrors]),
              n)),
       n, onlySelf, emitEvent, _parentMarkedDirty(s, n, onlySelf), av)

\* Fault model: enable() sets the status without validating again.
enableWithoutRecompute(s, n, onlySelf, emitEvent, av) ==
  [s EXCEPT !.status[n] = VALID]

RECURSIVE enable(_, _, _, _, _)
RECURSIVE enableEach(_, _, _, _)
enableEach(s, cs, emitEvent, av) ==
  IF cs = <<>> THEN s
  ELSE enableEach(enable(s, Head(cs), TRUE, emitEvent, av), Tail(cs), emitEvent, av)

enable(s, n, onlySelf, emitEvent, av) ==
  LET children(s1) == enableEach(s1, s1.controls[n], emitEvent, av)
  IN _updateAncestors(
       updateValueAndValidity(children([s EXCEPT !.status[n] = VALID]),
                              n, TRUE, emitEvent, av),
       n, onlySelf, emitEvent, _parentMarkedDirty(s, n, onlySelf), av)

\* -------------------------------------------------------- markAsPending
RECURSIVE markAsPending(_, _, _, _)
markAsPending(s, n, onlySelf, emitEvent) ==
  LET up(s2) == IF s2.parent[n] # None /\ ~onlySelf
                THEN markAsPending(s2, s2.parent[n], onlySelf, emitEvent)
                ELSE s2
  IN up(EmitIf([s EXCEPT !.status[n] = PENDING], emitEvent, "status", n))

\* ------------------------------------------------------------- leaf ops
\* FormControl.setValue.  The forceUpdate callback of the root is called
\* only if one is installed and changes nothing in the tree; no change
\* listener is registered.
setValue(s, n, v, onlySelf, emitEvent, av) ==
  updateValueAndValidity([s EXCEPT !.value[n] = v, !.pendingValue[n] = v],
                         n, onlySelf, emitEvent, av)

\* ------------------------------------------------ touched / dirty marks
\* Fault model: the ancestors are not marked.
markAsTouchedOnlySelf(s, n, onlySelf) == [s EXCEPT !.touched[n] = TRUE]

RECURSIVE markAsTouched(_, _, _)
markAsTouched(s, n, onlySelf) ==
  LET up(s1) == IF s1.parent[n] # None /\ ~onlySelf
                THEN markAsTouched(s1, s1.parent[n], onlySelf)
                ELSE s1
  IN up([s EXCEPT !.touched[n] = TRUE])

\* markAllAsTouched(): the node with onlySelf, then every child in turn.
RECURSIVE markAllAsTouched(_, _)
RECURSIVE markAllAsTouchedEach(_, _)
markAllAsTouchedEach(s, cs) ==
  IF cs = << >> THEN s
  ELSE markAllAsTouchedEach(markAllAsTouched(s, Head(cs)), Tail(cs))

markAllAsTouched(s, n) ==
  markAllAsTouchedEach(markAsTouched(s, n, TRUE), s.controls[n])

\* Fault model: onlySelf is ignored.
RECURSIVE markAsDirtyUpwards(_, _, _)
markAsDirtyUpwards(s, n, onlySelf) ==
  LET up(s1) == IF s1.parent[n] # None
                THEN markAsDirtyUpwards(s1, s1.parent[n], onlySelf)
                ELSE s1
  IN up([s EXCEPT !.pristine[n] = FALSE])

RECURSIVE markAsDirty(_, _, _)
markAsDirty(s, n, onlySelf) ==
  LET up(s1) == IF s1.parent[n] # None /\ ~onlySelf
                THEN markAsDirty(s1, s1.parent[n], onlySelf)
                ELSE s1
  IN up([s EXCEPT !.pristine[n] = FALSE])

RECURSIVE markAsUntouched(_, _, _)
RECURSIVE markAsUntouchedEach(_, _)
markAsUntouchedEach(s, cs) ==
  IF cs = <<>> THEN s
  ELSE markAsUntouchedEach(markAsUntouched(s, Head(cs), TRUE), Tail(cs))

markAsUntouched(s, n, onlySelf) ==
  LET up(s1) == IF s1.parent[n] # None /\ ~onlySelf
                THEN _updateTouched(s1, s1.parent[n], onlySelf)
                ELSE s1
      children(s1) == markAsUntouchedEach(s1, s1.controls[n])
  IN up(children([s EXCEPT !.touched[n] = FALSE, !.pendingTouched[n] = FALSE]))

\* Fault models of markAsPristine: the children are not visited; the
\* ancestors are re-derived before the node is cleared.
markAsPristineWithoutChildren(s, n, onlySelf) ==
  LET up(s1) == IF s1.parent[n] # None /\ ~onlySelf
                THEN _updatePristine(s1, s1.parent[n], onlySelf)
                ELSE s1
  IN up([s EXCEPT !.pristine[n] = TRUE, !.pendingDirty[n] = FALSE])

markAsPristineDeriveFirst(s, n, onlySelf) ==
  LET up(s1) == IF s1.parent[n] # None /\ ~onlySelf
                THEN _updatePristine(s1, s1.parent[n], onlySelf)
                ELSE s1
      clear(s1) == [s1 EXCEPT !.pristine[n] = TRUE, !.pendingDirty[n] = FALSE]
  IN clear(up(s))

RECURSIVE markAsPristine(_, _, _)
RECURSIVE markAsPristineEach(_, _)
markAsPristineEach(s, cs) ==
  IF cs = <<>> THEN s
  ELSE markAsPristineEach(markAsPristine(s, Head(cs), TRUE), Tail(cs))

markAsPristine(s, n, onlySelf) ==
  LET up(s1) == IF s1.parent[n] # None /\ ~onlySelf
                THEN _updatePristine(s1, s1.parent[n], onlySelf)
                ELSE s1
      children(s1) == markAsPristineEach(s1, s1.controls[n])
  IN up(children([s EXCEPT !.pristine[n] = TRUE, !.pendingDirty[n] = FALSE]))

\* ------------------------------------------------ validator bookkeeping
\* A node's validators are "required" or none (synchronous) and the
\* asynchronous validator of AsyncNodes or none.
ValidatorChoices == {"none", "required"}

\* addValidators / removeValidators of the validator helpers: adding a
\* validator already present changes nothing; removing the only validator
\* leaves none.
addValidatorsTo(vs, raw) == IF vs = "none" THEN raw ELSE vs

removeValidatorsFrom(vs, raw) == IF vs = raw THEN "none" ELSE raw

\* Fault model: the new validators are applied at once.
setValidatorsAndRun(s, n, vs) ==
  [s EXCEPT !.validator[n] = vs,
            !.errors[n] = IF vs = "required" THEN Required(s.value[n]) ELSE NoErrors]

setValidators(s, n, vs) == [s EXCEPT !.validator[n] = vs]

setAsyncValidators(s, n, avs) == [s EXCEPT !.asyncValidator[n] = avs]

addValidators(s, n, vs) ==
  setValidators(s, n, addValidatorsTo(vs, s.validator[n]))

addAsyncValidators(s, n, avs) ==
  setAsyncValidators(s, n, avs \/ s.asyncValidator[n])

removeValidators(s, n, vs) ==
  setValidators(s, n, removeValidatorsFrom(vs, s.validator[n]))

removeAsyncValidators(s, n, avs) ==
  setAsyncValidators(s, n, s.asyncValidator[n] /\ ~avs)

clearValidators(s, n) == [s EXCEPT !.validator[n] = "none"]

clearAsyncValidators(s, n) == [s EXCEPT !.asyncValidator[n] = FALSE]

\* ------------------------------------------------------ update strategy
Strategies == {"change", "blur", "submit"}

\* Fault model: the parent's strategy is not inherited.
get_updateOnOwn(s, n) ==
  IF s.updateOn[n] # None THEN s.updateOn[n] ELSE "change"

\* The updateOn getter.
RECURSIVE get_updateOn(_, _)
get_updateOn(s, n) ==
  IF s.updateOn[n] # None THEN s.updateOn[n]
  ELSE IF s.parent[n] # None THEN get_updateOn(s, s.parent[n])
  ELSE "change"

\* opt is the updateOn entry of the options object, None when there is no
\* options object or no such entry.
_setUpdateStrategy(s, n, opt) ==
  IF opt # None THEN [s EXCEPT !.updateOn[n] = opt] ELSE s

setParent(s, n, p) == [s EXCEPT !.parent[n] = p]

\* The root getter.
RECURSIVE root(_, _)
root(s, n) == IF s.parent[n] = None THEN n ELSE root(s, s.parent[n])

\* this.root.forceUpdate(): the call fails when no callback is installed.
CallForceUpdate(s, n) ==
  IF s.forceUpdate[root(s, n)] THEN s ELSE [s EXCEPT !.thrown = "TypeError"]

\* ---------------------------------------------------------- construction
Config ==
  [validator |-> [n \in Controls |-> IF IsLeaf(n) THEN "required" ELSE "none"],
   asyncValidator |-> [n \in Controls |-> n \in AsyncNodes]]

\* Fields of a tree whose nodes have been allocated but not yet constructed.
\* status is undefined there; VALID stands for it (undefined !== DISABLED).
Blank ==
  [parent |-> [n \in Controls |-> None],
   controls |-> [n \in Controls |-> << >>],
   validator |-> Config.validator,
   asyncValidator |-> Config.asyncValidator,
   value |-> [n \in Controls |-> IF IsLeaf(n) THEN NullValue ELSE << >>],
   pendingValue |-> [n \in Controls |-> NullValue],
   status |-> [n \in Controls |-> VALID],
   errors |-> [n \in Controls |-> NoErrors],
   hasOwnPending |-> [n \in Controls |-> FALSE],
   pristine |-> [n \in Controls |-> TRUE],
   touched |-> [n \in Controls |-> FALSE],
   sub |-> [n \in Controls |-> None],
   inflight |-> [n \in Controls |-> {}],
   pendingDirty |-> [n \in Controls |-> FALSE],
   pendingTouched |-> [n \in Controls |-> FALSE],
   pendingChange |-> [n \in Controls |-> FALSE],
   updateOn |-> [n \in Controls |-> None],
   defaultValue |-> [n \in Controls |-> NullValue],
   forceUpdate |-> [n \in Controls |-> FALSE],
   load |-> NewAsyncProcessor(FALSE),
   formConfig |-> NewFormConfig(FALSE),
   trace |-> << >>,
   thrown |-> None,
   thrownKey |-> None,
   returned |-> FALSE]

\* A form state is the bare value, or boxed: {value, disabled}.
FormStates ==
  {f \in [value : Vals, boxed : BOOLEAN, disabled : BOOLEAN] :
     ~f.boxed => ~f.disabled}

_applyFormState(s, n, f) ==
  LET able(s1) == IF f.boxed
                  THEN IF f.disabled
                       THEN disable(s1, n, TRUE, FALSE, Deferred)
                       ELSE enable(s1, n, TRUE, FALSE, Deferred)
                  ELSE s1
  IN able([s EXCEPT !.value[n] = f.value, !.pendingValue[n] = f.value])

\* new FormControl(formState, validator, asyncValidator)
NewFormControl(s, n, f) ==
  updateValueAndValidity(_applyFormState(s, n, f),
                         n, TRUE, s.asyncValidator[n], Deferred)

RECURSIVE setParentEach(_, _, _)
setParentEach(s, p, cs) ==
  IF cs = <<>> THEN s
  ELSE setParentEach([s EXCEPT !.parent[Head(cs)] = p], p, Tail(cs))

\* new FormGroup(controls, validator, asyncValidator)
NewFormGroup(s, n, cs) ==
  updateValueAndValidity(
    setParentEach([s EXCEPT !.controls[n] = cs], n, cs),
    n, TRUE, s.asyncValidator[n], Deferred)

\* new FormArray(controls)
NewFormArray(s, n, cs) ==
  updateValueAndValidity(
    setParentEach([s EXCEPT !.controls[n] = cs], n, cs),
    n, TRUE, s.asyncValidator[n], Deferred)

\* ------------------------------------------------ attaching, detaching
Without(cs, c) == LET other(d) == d # c IN SelectSeq(cs, other)

\* A node is taken out of the child collection of the composite that
\* holds it, if any: its parent reference is cleared and its outstanding
\* asynchronous validation is cancelled.
detach(s, c) ==
  IF s.parent[c] = None THEN s
  ELSE [_cancelExistingSubscription(s, c)
          EXCEPT !.controls[s.parent[c]] = Without(@, c), !.parent[c] = None]

\* The node c becomes the i-th child of n, the last one if there are fewer.
\* It leaves its prior parent first; another composite that held it is
\* recomputed as after a removal.
attach(s, n, c, i, emitEvent, av) ==
  LET at(cs) == IF i <= Len(cs) THEN i ELSE Len(cs) + 1
      into(cs, j) == SubSeq(cs, 1, j - 1) \o <<c>> \o SubSeq(cs, j, Len(cs))
      put(s1) == setParent(
                   [s1 EXCEPT !.controls[n] = into(@, at(@))], c, n)
      leave(s0) == IF s0.parent[c] \in {None, n} THEN detach(s0, c)
                   ELSE updateValueAndValidity(detach(s0, c), s0.parent[c],
                                               FALSE, emitEvent, av)
  IN put(leave(s))

\* FormGroup.addControl(name, control, {emitEvent}): a key already
\* registered keeps its control.
addControl(s, n, c, emitEvent, av) ==
  LET add(s1) == IF c \in ChildSet(s1, n) THEN s1
                 ELSE attach(s1, n, c, Len(s1.controls[n]) + 1, emitEvent, av)
  IN updateValueAndValidity(add(s), n, FALSE, emitEvent, av)

\* FormGroup.removeControl(name, {emitEvent})
removeControl(s, n, c, emitEvent, av) ==
  LET remove(s1) == IF c \in ChildSet(s1, n) THEN detach(s1, c) ELSE s1
  IN updateValueAndValidity(remove(s), n, FALSE, emitEvent, av)

\* FormArray.push(control, {emitEvent})
push(s, n, c, emitEvent, av) ==
  updateValueAndValidity(attach(s, n, c, Len(s.controls[n]) + 1, emitEvent, av),
                         n, FALSE, emitEvent, av)

\* FormArray.insert(index, control, {emitEvent}); positions count from 1
\* here, from 0 in the program.
insert(s, n, i, c, emitEvent, av) ==
  updateValueAndValidity(attach(s, n, c, i, emitEvent, av), n, FALSE, emitEvent, av)

\* Fault model: the child is removed and the array is not recomputed.
removeAtWithoutRecompute(s, n, i, emitEvent, av) ==
  IF i \in 1..Len(s.controls[n]) THEN detach(s, s.controls[n][i]) ELSE s

\* FormArray.removeAt(index, {emitEvent})
removeAt(s, n, i, emitEvent, av) ==
  LET remove(s1) == IF i \in 1..Len(s1.controls[n])
                    THEN detach(s1, s1.controls[n][i])
                    ELSE s1
  IN updateValueAndValidity(remove(s), n, FALSE, emitEvent, av)

\* ------------------------------------------------------- get(path)
\* The decimal names of the positions of an array: "0" is the first child.
PositionOf == [k \in {"0", "1"} |-> IF k = "0" THEN 1 ELSE 2]

\* A path is null, an array of keys, or a string.  A string is the sequence
\* of its pieces, each a key or the dot; a segment of a split string is the
\* sequence of pieces between two dots and names the key k when it is <<k>>.
NullPath == [kind |-> "null"]
ArrayPath(ks) == [kind |-> "array", keys |-> ks]
StringPath(ps) == [kind |-> "string", pieces |-> ps]

\* String.prototype.split("."): at least one segment, possibly empty.
RECURSIVE Split(_)
Split(ps) ==
  LET dot(i) == ps[i] = "."
      dots == {i \in 1..Len(ps) : dot(i)}
      first(ds) == CHOOSE i \in ds : \A j \in ds : i <= j
      cut(i) == <<SubSeq(ps, 1, i - 1)>> \o Split(SubSeq(ps, i + 1, Len(ps)))
  IN IF dots = {} THEN <<ps>> ELSE cut(first(dots))

\* The segments of an array of keys.
Segments(ks) == [i \in 1..Len(ks) |-> <<ks[i]>>]

\* _find(name): none on a leaf; the child under the key in a group; the
\* child at the position in an array.
_find(s, n, seg) ==
  IF IsLeaf(n) \/ Len(seg) # 1 THEN None
  ELSE IF IsArray(n)
       THEN IF seg[1] \in DOMAIN PositionOf /\ PositionOf[seg[1]] <= Len(s.controls[n])
            THEN s.controls[n][PositionOf[seg[1]]]
            ELSE None
       ELSE IF seg[1] \in ChildSet(s, n) THEN seg[1] ELSE None

\* currPath.reduce((control, name) => control && control._find(name), this)
RECURSIVE reduceFind(_, _, _)
reduceFind(s, n, segs) ==
  IF segs = << >> \/ n = None THEN n
  ELSE reduceFind(s, _find(s, n, Head(segs)), Tail(segs))

\* Fault model: only the first segment is resolved.
getFirstSegment(s, n, path) ==
  IF path.kind = "null" THEN None
  ELSE IF path.kind = "array"
       THEN IF path.keys = << >> THEN None ELSE _find(s, n, <<Head(path.keys)>>)
       ELSE _find(s, n, Head(Split(path.pieces)))

\* AbstractControl.get(path)
get(s, n, path) ==
  LET walk(segs) == IF Len(segs) = 0 THEN None ELSE reduceFind(s, n, segs)
  IN IF path.kind = "null" THEN None
     ELSE IF path.kind = "array" THEN walk(Segments(path.keys))
     ELSE walk(Split(path.pieces))

\* ------------------------------------------- structural assertions
\* A RuntimeError with the given code, its message naming the key.
Throw(s, code, key) == [s EXCEPT !.thrown = code, !.thrownKey = key]

\* Property names that every object has through Object.prototype.
InheritedKeys == {"toString"}

\* controls[key] is truthy: a child registered under the key (an array is
\* asked by position), or a property the controls object inherits.
HasControl(s, n, key) ==
  IF IsArray(n) THEN key \in 1..Len(s.controls[n])
  ELSE key \in ChildSet(s, n) \cup InheritedKeys

\* assertControlPresent(parent, isGroup, key)
assertControlPresent(s, n, key) ==
  IF Len(s.controls[n]) = 0 THEN Throw(s, "NO_CONTROLS", None)
  ELSE IF ~HasControl(s, n, key) THEN Throw(s, "MISSING_CONTROL", key)
  ELSE s

\* Fault model: no value is required.
assertNoValuesPresent(s, n, obj) == s

\* assertAllValuesPresent(control, isGroup, value): value is a function from
\* the keys it has to their values; a key outside its domain is undefined.
assertAllValuesPresent(s, n, obj) ==
  LET missing(k) == k \notin DOMAIN obj
      first(ks) == IF ks = <<>> THEN s
                   ELSE Throw(s, "MISSING_CONTROL_VALUE", Head(ks))
  IN first(SelectSeq(s.controls[n], missing))

\* ------------------------------------------- the group's setValue, patchValue
\* Object.keys(value) of the objects handed to the group.
KeyOrder == <<"name", "age">>

\* The objects handed to the group: any of the keys may be absent.
Objects == UNION {[ks -> Vals] : ks \in SUBSET Leaves}

\* Object.keys(value).forEach(name => { assertControlPresent(this, true, name);
\*   this.controls[name].setValue(value[name], {onlySelf: true, emitEvent}) })
RECURSIVE FormGroup_setEach(_, _, _, _, _, _)
FormGroup_setEach(s, n, ks, obj, emitEvent, av) ==
  LET set(s1) == IF s1.thrown # None THEN s1
                 ELSE setValue(s1, Head(ks), obj[Head(ks)], TRUE, emitEvent, av)
      one(s2) == IF Head(ks) \in DOMAIN obj
                 THEN set(assertControlPresent(s2, n, Head(ks)))
                 ELSE s2
      rest(s3) == IF s3.thrown # None THEN s3
                  ELSE FormGroup_setEach(s3, n, Tail(ks), obj, emitEvent, av)
  IN IF ks = << >> THEN s ELSE rest(one(s))

\* FormGroup.setValue(value, {onlySelf, emitEvent})
FormGroup_setValue(s, n, obj, onlySelf, emitEvent, av) ==
  LET recompute(s2) == IF s2.thrown # None THEN s2
                       ELSE updateValueAndValidity(s2, n, onlySelf, emitEvent, av)
      each(s1) == IF s1.thrown # None THEN s1
                  ELSE FormGroup_setEach(s1, n, KeyOrder, obj, emitEvent, av)
  IN recompute(each(assertAllValuesPresent(s, n, obj)))

\* Object.keys(value).forEach(name => { if (this.controls[name])
\*   this.controls[name].patchValue(value[name], {onlySelf: true, emitEvent}) })
RECURSIVE FormGroup_patchEach(_, _, _, _, _, _)
FormGroup_patchEach(s, n, ks, obj, emitEvent, av) ==
  LET one(s1) == IF Head(ks) \in DOMAIN obj /\ Head(ks) \in ChildSet(s1, n)
                 THEN setValue(s1, Head(ks), obj[Head(ks)], TRUE, emitEvent, av)
                 ELSE s1
  IN IF ks = << >> THEN s
     ELSE FormGroup_patchEach(one(s), n, Tail(ks), obj, emitEvent, av)

\* Fault model: patchValue is as strict as setValue.
FormGroup_patchValueStrict(s, n, obj, onlySelf, emitEvent, av) ==
  FormGroup_setValue(s, n, obj, onlySelf, emitEvent, av)

\* FormGroup.patchValue(value, {onlySelf, emitEvent})
FormGroup_patchValue(s, n, obj, onlySelf, emitEvent, av) ==
  updateValueAndValidity(FormGroup_patchEach(s, n, KeyOrder, obj, emitEvent, av),
                         n, onlySelf, emitEvent, av)

\* new FormGroup({name: new FormControl(fn, ...), age: new FormControl(fa, ...)})
Build(fn, fa) ==
  [NewFormGroup(NewFormControl(NewFormControl(Blank, "name", fn), "age", fa),
                "grp", <<"name", "age">>)
     EXCEPT !.trace = << >>]

\* ----------------------------------------------------- leaf interaction
\* Fault model: reset without the final setValue.
resetWithoutSetValue(s, n, f, onlySelf, emitEvent, av) ==
  markAsUntouched(markAsPristine(_applyFormState(s, n, f), n, onlySelf),
                  n, onlySelf)

\* FormControl.reset(formState, options); ResetDefault below stands for the
\* call without formState.
reset(s, n, f, onlySelf, emitEvent, av) ==
  LET again(s1) == setValue(s1, n, s1.value[n], onlySelf, emitEvent, av)
      done(s2) == [s2 EXCEPT !.pendingChange[n] = FALSE]
  IN done(again(markAsUntouched(
                  markAsPristine(_applyFormState(s, n, f), n, onlySelf),
                  n, onlySelf)))

Bare(v) == [value |-> v, boxed |-> FALSE, disabled |-> FALSE]

ResetDefault(s, n, onlySelf, emitEvent, av) ==
  reset(s, n, Bare(s.defaultValue[n]), onlySelf, emitEvent, av)

\* Fault model: the input is applied at once whatever the strategy.
onChangeEager(s, n, v, av) ==
  LET dirty(s1) == IF v # s1.value[n] /\ s1.pristine[n]
                   THEN markAsDirty(s1, n, FALSE) ELSE s1
  IN setValue(dirty(s), n, v, FALSE, TRUE, av)

\* FormControl.onChange(event): getControlValue of a plain value is the
\* value itself.
onChange(s, n, v, av) ==
  LET isDirty == v # s.value[n]
      dirty(s1) == IF isDirty /\ s1.pristine[n] THEN markAsDirty(s1, n, FALSE) ELSE s1
  IN IF get_updateOn(s, n) # "change"
     THEN [s EXCEPT !.pendingValue[n] = v,
                    !.pendingChange[n] = TRUE,
                    !.pendingDirty[n] = @ \/ isDirty]
     ELSE setValue(dirty(s), n, v, FALSE, TRUE, av)

\* FormControl.onBlur()
onBlur(s, n) ==
  LET dirty(s1) == IF s1.pendingDirty[n] /\ s1.pristine[n]
                   THEN markAsDirty(s1, n, FALSE) ELSE s1
      touch(s1) == IF ~s1.touched[n] THEN markAsTouched(s1, n, FALSE) ELSE s1
      touchAndRender(s1) == IF ~s1.touched[n]
                            THEN CallForceUpdate(markAsTouched(s1, n, FALSE), n)
                            ELSE s1
  IN IF get_updateOn(s, n) = "blur" THEN CallForceUpdate(touch(dirty(s)), n)
     ELSE IF get_updateOn(s, n) = "submit"
          THEN [s EXCEPT !.pendingTouched[n] = TRUE]
          ELSE touchAndRender(s)

\* Fault model: the buffered interaction is applied whatever the strategy.
_syncPendingAlways(s, n, av) ==
  LET dirty(s1) == IF s1.pendingDirty[n] THEN markAsDirty(s1, n, FALSE) ELSE s1
      touch(s2) == IF s2.pendingTouched[n] THEN markAsTouched(s2, n, FALSE) ELSE s2
      apply(s3) == IF s3.pendingChange[n]
                   THEN [setValue(s3, n, s3.pendingValue[n], TRUE, TRUE, av)
                           EXCEPT !.returned = TRUE]
                   ELSE s3
  IN apply(touch(dirty(s)))

\* FormControl._syncPendingControls(): the return value is the field returned.
_syncPendingControls(s, n, av) ==
  LET dirty(s1) == IF s1.pendingDirty[n] THEN markAsDirty(s1, n, FALSE) ELSE s1
      touch(s2) == IF s2.pendingTouched[n] THEN markAsTouched(s2, n, FALSE) ELSE s2
      apply(s3) == IF s3.pendingChange[n]
                   THEN [setValue(s3, n, s3.pendingValue[n], TRUE, TRUE, av)
                           EXCEPT !.returned = TRUE]
                   ELSE s3
  IN IF get_updateOn(s, n) = "submit" THEN apply(touch(dirty(s))) ELSE s

\* ------------------------------------------- construction with options
\* opts: the updateOn entry (None when absent) and initialValueIsDefault.
ControlOptions == [updateOn : Strategies \cup {None}, initialValueIsDefault : BOOLEAN]

\* new FormControl(formState, {validators, asyncValidators, updateOn,
\* initialValueIsDefault})
NewFormControlWith(s, n, f, opts) ==
  LET default(s1) == IF opts.initialValueIsDefault
                     THEN [s1 EXCEPT !.defaultValue[n] = f.value]
                     ELSE s1
  IN default(updateValueAndValidity(
               _setUpdateStrategy(_applyFormState(s, n, f), n, opts.updateOn),
               n, TRUE, s.asyncValidator[n], Deferred))

\* new FormGroup(controls, {updateOn})
NewFormGroupWith(s, n, cs, opt) ==
  updateValueAndValidity(
    _setUpdateStrategy(setParentEach([s EXCEPT !.controls[n] = cs], n, cs), n, opt),
    n, TRUE, s.asyncValidator[n], Deferred)

InitFrom(s) ==
  /\ parent = s.parent
  /\ controls = s.controls
  /\ validator = s.validator
  /\ asyncValidator = s.asyncValidator
  /\ value = s.value
  /\ pendingValue = s.pendingValue
  /\ status = s.status
  /\ errors = s.errors
  /\ hasOwnPending = s.hasOwnPending
  /\ pristine = s.pristine
  /\ touched = s.touched
  /\ sub = s.sub
  /\ inflight = s.inflight
  /\ pendingDirty = s.pendingDirty
  /\ pendingTouched = s.pendingTouched
  /\ pendingChange = s.pendingChange
  /\ updateOn = s.updateOn
  /\ defaultValue = s.defaultValue
  /\ forceUpdate = s.forceUpdate
  /\ load = s.load
  /\ formConfig = s.formConfig

Init == \E fn \in FormStates, fa \in FormStates : InitFrom(Build(fn, fa))

\* --------------------------------------------------------------- actions
CanStart == \A n \in Controls : Cardinality(inflight[n]) < MaxInFlight

\* The nodes an operation on n recomputes besides n: its descendants and,
\* unless onlySelf, its ancestors.
RECURSIVE Ancestors(_)
Ancestors(n) == IF parent[n] = None THEN {} ELSE {parent[n]} \cup Ancestors(parent[n])

\* The nodes _forEachChild reaches from n, through the child collections.
RECURSIVE Descendants(_)
Descendants(n) ==
  ChildSet(Cur, n) \cup UNION {Descendants(c) : c \in ChildSet(Cur, n)}

\* The outcomes of the asynchronous validator worth telling apart for an
\* operation that recomputes the nodes ns: one, if none of them has an
\* asynchronous validator.
Outcomes(ns) ==
  IF \E m \in ns : asyncValidator[m] THEN AsyncOutcome ELSE {Deferred}

Reach(n, onlySelf) == {n} \cup IF onlySelf THEN {} ELSE Ancestors(n)

SetValue(n, v, onlySelf, emitEvent, av) ==
  /\ CanStart
  /\ Commit(setValue(Cur, n, v, onlySelf, emitEvent, av))

UpdateValueAndValidity(n, onlySelf, emitEvent, av) ==
  /\ CanStart
  /\ Commit(updateValueAndValidity(Cur, n, onlySelf, emitEvent, av))

Disable(n, onlySelf, emitEvent, av) ==
  /\ CanStart
  /\ Commit(disable(Cur, n, onlySelf, emitEvent, av))

Enable(n, onlySelf, emitEvent, av) ==
  /\ CanStart
  /\ Commit(enable(Cur, n, onlySelf, emitEvent, av))

SetErrors(n, e, emitEvent) == Commit(setErrors(Cur, n, e, emitEvent))

MarkAsPending(n, onlySelf, emitEvent) ==
  Commit(markAsPending(Cur, n, onlySelf, emitEvent))

\* Fault model: the callback sets the errors before it clears the flag.
ArriveFlagLast(s, n, r) ==
  LET callback(s1) == IF r.subscribed
                      THEN [setErrors(s1, n, r.result, r.emitEvent)
                              EXCEPT !.hasOwnPending[n] = FALSE]
                      ELSE s1
  IN callback([s EXCEPT !.inflight[n] = @ \ {r},
                        !.sub[n] = IF r.handle THEN "done" ELSE @])

\* The result of the in-flight run r of node n arrives: the subscriber's
\* callback runs if it is still subscribed.
Arrive(s, n, r) ==
  LET callback(s1) == IF r.subscribed
                      THEN setErrors([s1 EXCEPT !.hasOwnPending[n] = FALSE],
                                     n, r.result, r.emitEvent)
                      ELSE s1
  IN callback([s EXCEPT !.inflight[n] = @ \ {r},
                        !.sub[n] = IF r.handle THEN "done" ELSE @])

Settle(n, r) ==
  /\ r \in inflight[n]
  /\ Commit(Arrive(Cur, n, r))

Next ==
  \/ \E n \in Leaves, v \in Vals, o \in BOOLEAN, e \in BOOLEAN :
       \E av \in Outcomes(Reach(n, o)) : SetValue(n, v, o, e, av)
  \/ \E n \in Nodes, o \in BOOLEAN, e \in BOOLEAN :
       \E av \in Outcomes(Reach(n, o)) : UpdateValueAndValidity(n, o, e, av)
  \/ \E n \in Nodes, o \in BOOLEAN, e \in BOOLEAN :
       \E av \in Outcomes(Reach(n, o) \ {n}) : Disable(n, o, e, av)
  \/ \E n \in Nodes, o \in BOOLEAN, e \in BOOLEAN :
       \E av \in Outcomes(Reach(n, o) \cup Descendants(n)) : Enable(n, o, e, av)
  \/ \E n \in Nodes : \E r \in inflight[n] : Settle(n, r)

Spec == Init /\ [][Next]_vars

\* The arrival of some outstanding result.
Settles == \E n \in Nodes : \E r \in inflight[n] : Settle(n, r)

\* Value changes of the validated leaf, disable and enable, with and without
\* onlySelf, every started run eventually delivering its result: the result
\* of a run is delivered by the event loop, whatever the tree does in between.
NextSettling ==
  \/ \E v \in Vals, o \in BOOLEAN :
       \E av \in Outcomes(Reach("name", o)) : SetValue("name", v, o, TRUE, av)
  \/ \E n \in Nodes, o \in BOOLEAN : Disable(n, o, TRUE, Deferred)
  \/ \E n \in Nodes, o \in BOOLEAN :
       \E av \in Outcomes(Reach(n, o) \cup Descendants(n)) : Enable(n, o, TRUE, av)
  \/ Settles

SpecSettling == Init /\ [][NextSettling]_vars /\ WF_vars(Settles)

\* Every operation invoked with its default options (onlySelf false,
\* emitEvent true), together with the two operations that set errors and
\* status by hand.
NextManual ==
  \/ \E n \in Leaves, v \in Vals :
       \E av \in Outcomes(Reach(n, FALSE)) : SetValue(n, v, FALSE, TRUE, av)
  \/ \E n \in Nodes :
       \E av \in Outcomes(Reach(n, FALSE)) : UpdateValueAndValidity(n, FALSE, TRUE, av)
  \/ \E n \in Nodes :
       \E av \in Outcomes(Reach(n, FALSE) \ {n}) : Disable(n, FALSE, TRUE, av)
  \/ \E n \in Nodes :
       \E av \in Outcomes(Reach(n, FALSE) \cup Descendants(n)) : Enable(n, FALSE, TRUE, av)
  \/ \E n \in Nodes, e \in ManualErrors : SetErrors(n, e, TRUE)
  \/ \E n \in Nodes : MarkAsPending(n, FALSE, TRUE)
  \/ \E n \in Nodes : \E r \in inflight[n] : Settle(n, r)

SpecManual == Init /\ [][NextManual]_vars

\* ------------------------------------------------- marks on a deeper tree
\* The tree  form -> grp -> {name, age}  without asynchronous validators;
\* name updates on submit.
BuildForm(fn, fa) ==
  [NewFormGroup(
     NewFormGroup(
       NewFormControl(
         NewFormControlWith([Blank EXCEPT !.asyncValidator = [n \in Controls |-> FALSE]],
                            "name", fn,
                            [updateOn |-> "submit", initialValueIsDefault |-> FALSE]),
         "age", fa),
       "grp", <<"name", "age">>),
     "form", <<"grp">>)
     EXCEPT !.trace = << >>]

\* The nodes of that tree.
FormNodes == Nodes \cup {"form"}

InitMarks == InitFrom(BuildForm(Bare("x"), Bare(NullValue)))

MarkAsTouched(n, onlySelf) == Commit(markAsTouched(Cur, n, onlySelf))

MarkAsDirty(n, onlySelf) == Commit(markAsDirty(Cur, n, onlySelf))

MarkAsUntouched(n, onlySelf) == Commit(markAsUntouched(Cur, n, onlySelf))

MarkAsPristine(n, onlySelf) == Commit(markAsPristine(Cur, n, onlySelf))

MarkAllAsTouched(n) == Commit(markAllAsTouched(Cur, n))

Reset(n, f, onlySelf, emitEvent, av) ==
  /\ CanStart
  /\ Commit(reset(Cur, n, f, onlySelf, emitEvent, av))

OnChange(n, v, av) ==
  /\ CanStart
  /\ Commit(onChange(Cur, n, v, av))

\* A failing call leaves the marks it made before the failure.
OnBlur(n) == Commit(onBlur(Cur, n))

NextMarks ==
  \/ \E n \in FormNodes, o \in BOOLEAN : MarkAsTouched(n, o)
  \/ \E n \in FormNodes : MarkAllAsTouched(n)
  \/ \E n \in FormNodes, o \in BOOLEAN : MarkAsDirty(n, o)
  \/ \E n \in FormNodes, o \in BOOLEAN : MarkAsUntouched(n, o)
  \/ \E n \in FormNodes, o \in BOOLEAN : MarkAsPristine(n, o)
  \/ \E n \in FormNodes : Disable(n, FALSE, TRUE, Deferred)
  \/ \E n \in FormNodes : Enable(n, FALSE, TRUE, Deferred)
  \/ \E n \in Leaves : Reset(n, Bare(defaultValue[n]), FALSE, TRUE, Deferred)
  \/ \E v \in Vals : OnChange("name", v, Deferred)
  \/ OnBlur("name")

SpecMarks == InitMarks /\ [][NextMarks]_vars

\* ------------------------------------------- user input on the leaves
\* new FormGroup({name: new FormControl(vn, {..., ...on}),
\*                age: new FormControl(null, ...)}, {updateOn: og}),
\* then handed to useForm, which installs forceUpdate on it, or not yet.
BuildInput(vn, on, og, installed) ==
  [NewFormGroupWith(
     NewFormControl(NewFormControlWith(Blank, "name", Bare(vn), on),
                    "age", Bare(NullValue)),
     "grp", <<"name", "age">>, og)
     EXCEPT !.forceUpdate["grp"] = installed, !.trace = << >>]

InitInput ==
  \E on \in ControlOptions, og \in {None, "blur"}, installed \in BOOLEAN :
    InitFrom(BuildInput("x", on, og, installed))

ResetToDefault(n, onlySelf, emitEvent, av) ==
  /\ CanStart
  /\ Commit(ResetDefault(Cur, n, onlySelf, emitEvent, av))

SyncPendingControls(n, av) ==
  /\ CanStart
  /\ Commit(_syncPendingControls(Cur, n, av))

NextInput ==
  \/ \E v \in Vals, av \in AsyncOutcome : OnChange("name", v, av)
  \/ OnBlur("name")
  \/ \E av \in AsyncOutcome : SyncPendingControls("name", av)
  \/ \E v \in Vals, av \in AsyncOutcome : Reset("name", Bare(v), FALSE, TRUE, av)
  \/ \E av \in AsyncOutcome : ResetToDefault("name", FALSE, TRUE, av)
  \/ \E r \in inflight["name"] : Settle("name", r)

SpecInput == InitInput /\ [][NextInput]_vars

\* ------------------------------------------------- update strategies
\* new FormGroup({grp: new FormGroup({name, age: new FormControl(null,
\* {updateOn: oa})}, {updateOn: og})}, {updateOn: of})
BuildStrategy(oa, og, of) ==
  [NewFormGroupWith(
     NewFormGroupWith(
       NewFormControlWith(
         NewFormControl([Blank EXCEPT !.asyncValidator = [n \in Controls |-> FALSE]],
                        "name", Bare("x")),
         "age", Bare(NullValue), [updateOn |-> oa, initialValueIsDefault |-> FALSE]),
       "grp", <<"name", "age">>, og),
     "form", <<"grp">>, of)
     EXCEPT !.trace = << >>]

InitStrategy ==
  \E oa \in Strategies \cup {None}, og \in {None, "blur"}, of \in {None, "submit"} :
    InitFrom(BuildStrategy(oa, og, of))

\* The parents a node can be given without closing a cycle.
NewParents(n) == ({"grp", "form", None} \ {n}) \ Descendants(n)

SetParent(n, p) == Commit(setParent(Cur, n, p))

NextStrategy ==
  \/ \E n \in {"age", "grp"} : \E p \in NewParents(n) : SetParent(n, p)
  \/ \E v \in Vals : OnChange("age", v, Deferred)

SpecStrategy == InitStrategy /\ [][NextStrategy]_vars

\* ------------------------------------------------------------ an array
\* new FormGroup({arr: new FormArray([new FormControl("x", required),
\*                                    new FormControl(null, required)])})
BuildArray ==
  [NewFormGroup(
     NewFormArray(
       NewFormControl(
         NewFormControl([Blank EXCEPT !.asyncValidator = [n \in Controls |-> FALSE]],
                        "name", Bare("x")),
         "age", Bare(NullValue)),
       "arr", <<"name", "age">>),
     "form", <<"arr">>)
     EXCEPT !.trace = << >>]

InitArray == InitFrom(BuildArray)

Push(n, c, emitEvent, av) == Commit(push(Cur, n, c, emitEvent, av))

Insert(n, i, c, emitEvent, av) == Commit(insert(Cur, n, i, c, emitEvent, av))

RemoveAt(n, i, emitEvent, av) ==
  /\ i \in 1..Len(controls[n])
  /\ Commit(removeAt(Cur, n, i, emitEvent, av))

AddControl(n, c, emitEvent, av) == Commit(addControl(Cur, n, c, emitEvent, av))

RemoveControl(n, c, emitEvent, av) ==
  /\ c \in ChildSet(Cur, n)
  /\ Commit(removeControl(Cur, n, c, emitEvent, av))

NextArray ==
  \/ \E n \in Leaves, v \in Vals, o \in BOOLEAN : SetValue(n, v, o, TRUE, Deferred)
  \/ \E n \in {"name", "age", "arr"} : Disable(n, FALSE, TRUE, Deferred)
  \/ \E n \in {"name", "age", "arr"} : Enable(n, FALSE, TRUE, Deferred)
  \/ \E c \in Leaves : Push("arr", c, TRUE, Deferred)
  \/ \E c \in Leaves : Insert("arr", 1, c, TRUE, Deferred)
  \/ \E i \in 1..2 : RemoveAt("arr", i, TRUE, Deferred)
  \/ \E c \in {"name", "age", "arr"} : AddControl("form", c, TRUE, Deferred)
  \/ \E c \in {"name", "age", "arr"} : RemoveControl("form", c, TRUE, Deferred)

SpecArray == InitArray /\ [][NextArray]_vars

\* ------------------------------------------- values handed to the group
\* new FormGroup({grp: new FormGroup({name: new FormControl("x", required),
\*                                    age: new FormControl(null, required)})})
BuildGroup ==
  [NewFormGroup(
     NewFormGroup(
       NewFormControl(
         NewFormControl([Blank EXCEPT !.asyncValidator = [n \in Controls |-> FALSE]],
                        "name", Bare("x")),
         "age", Bare(NullValue)),
       "grp", <<"name", "age">>),
     "form", <<"grp">>)
     EXCEPT !.trace = << >>]

InitGroup == InitFrom(BuildGroup)

GroupSetValue(n, obj, onlySelf, emitEvent, av) ==
  Commit(FormGroup_setValue(Cur, n, obj, onlySelf, emitEvent, av))

GroupPatchValue(n, obj, onlySelf, emitEvent, av) ==
  Commit(FormGroup_patchValue(Cur, n, obj, onlySelf, emitEvent, av))

NextGroup ==
  \/ \E obj \in Objects, o \in BOOLEAN : GroupSetValue("grp", obj, o, TRUE, Deferred)
  \/ \E obj \in Objects, o \in BOOLEAN : GroupPatchValue("grp", obj, o, TRUE, Deferred)
  \/ \E n \in Leaves, o \in BOOLEAN : Disable(n, o, TRUE, Deferred)
  \/ \E n \in Leaves, o \in BOOLEAN : Enable(n, o, TRUE, Deferred)
  \/ \E c \in Leaves : AddControl("grp", c, TRUE, Deferred)
  \/ \E c \in Leaves : RemoveControl("grp", c, TRUE, Deferred)

SpecGroup == InitGroup /\ [][NextGroup]_vars

\* -------------------------------------------- the tracker's operations
InitTracker ==
  \E installed \in BOOLEAN :
    InitFrom([Build(Bare("x"), Bare(NullValue))
                EXCEPT !.load = NewAsyncProcessor(installed)])

Processing(p) == Commit([Cur EXCEPT !.load = processing(@, p)])

Succeed(d) == Commit([Cur EXCEPT !.load = succeed(@, d)])

Failed(e) == Commit([Cur EXCEPT !.load = failed(@, e)])

Retry(p) == Commit([Cur EXCEPT !.load = retry(@, p)])

NextTracker ==
  \/ \E p \in Payloads : Processing(p)
  \/ \E d \in Payloads : Succeed(d)
  \/ \E e \in Payloads : Failed(e)
  \/ \E p \in Payloads : Retry(p)

SpecTracker == InitTracker /\ [][NextTracker]_vars

\* ------------------------------------------- loading the form's data
\* useForm: FormConfig.create(config, forceUpdate), the trackers made with
\* that forceUpdate.
InitLoad ==
  \E onFormLoaded \in BOOLEAN :
    InitFrom([Build(Bare("x"), Bare(NullValue))
                EXCEPT !.load = NewAsyncProcessor(TRUE),
                       !.formConfig = NewFormConfig(onFormLoaded)])

LoadSucceed(d) ==
  /\ Len(formConfig.timers) < MaxInFlight
  /\ Commit(loadSucceed(Cur, d))

Timeout ==
  /\ formConfig.timers # << >>
  /\ Commit(timeout(Cur))

NextLoad ==
  \/ \E p \in Payloads : Processing(p)
  \/ \E d \in Payloads : LoadSucceed(d)
  \/ \E e \in Payloads : Failed(e)
  \/ Timeout

SpecLoad == InitLoad /\ [][NextLoad]_vars

\* ------------------------------------------- changing the validators
InitValidators == \E fn \in FormStates : InitFrom(Build(fn, Bare(NullValue)))

SetValidators(n, vs) == Commit(setValidators(Cur, n, vs))

AddValidators(n, vs) == Commit(addValidators(Cur, n, vs))

RemoveValidators(n, vs) == Commit(removeValidators(Cur, n, vs))

ClearValidators(n) == Commit(clearValidators(Cur, n))

SetAsyncValidators(n, avs) == Commit(setAsyncValidators(Cur, n, avs))

AddAsyncValidators(n, avs) == Commit(addAsyncValidators(Cur, n, avs))

RemoveAsyncValidators(n, avs) == Commit(removeAsyncValidators(Cur, n, avs))

ClearAsyncValidators(n) == Commit(clearAsyncValidators(Cur, n))

NextValidators ==
  \/ \E vs \in ValidatorChoices : SetValidators("name", vs)
  \/ \E vs \in ValidatorChoices : AddValidators("name", vs)
  \/ \E vs \in ValidatorChoices : RemoveValidators("name", vs)
  \/ ClearValidators("name")
  \/ \E avs \in BOOLEAN : SetAsyncValidators("name", avs)
  \/ \E avs \in BOOLEAN : AddAsyncValidators("name", avs)
  \/ \E avs \in BOOLEAN : RemoveAsyncValidators("name", avs)
  \/ ClearAsyncValidators("name")
  \/ \E v \in Vals, av \in AsyncOutcome : SetValue("name", v, FALSE, TRUE, av)
  \/ \E av \in AsyncOutcome : UpdateValueAndValidity("name", FALSE, TRUE, av)
  \/ \E r \in inflight["name"] : Settle("name", r)

SpecValidators == InitValidators /\ [][NextValidators]_vars

\* ------------------------------------------------------------ properties
\* Properties of an operation are stated on its result: op(Cur, ...) is the
\* state the operation leaves when invoked in the current state, and
\* op(Cur, ...).trace the events it emits.

SubscribedRuns(n) == {r \in inflight[n] : r.subscribed}

SameErrorsAndStatus(a, b) == a.errors = b.errors /\ a.status = b.status

Silent(s) == [s EXCEPT !.trace = << >>]

\* C1: a run superseded by a later updateValueAndValidity of the same node
\* (a run that is no longer the one the node's subscription refers to)
\* changes neither errors nor status of any node and emits nothing when its
\* result arrives, before or after the later run's result; the result of
\* the latest run of an enabled node, when it arrives, becomes the node's
\* errors.
C1_SupersededRunIsNoOp ==
  \A n \in Nodes : \A r \in inflight[n] :
    LET unchanged(a) == SameErrorsAndStatus(a, Cur) /\ a.trace = << >>
        written(a) == a.errors[n] = r.result
    IN /\ ~r.handle => unchanged(Arrive(Cur, n, r))
       /\ (r.handle /\ r.subscribed /\ status[n] # DISABLED)
            => written(Arrive(Cur, n, r))

\* Two runs of an enabled node in flight, R1 superseded by R2, with
\* different results.
C1_TwoRunsInFlight ==
  \E n \in Nodes : \E r1, r2 \in inflight[n] :
    /\ ~r1.handle
    /\ r2.handle /\ r2.subscribed
    /\ r1.result # r2.result
    /\ status[n] = PENDING

\* C2: a result of a run that was outstanding when disable() was invoked on
\* its node, arriving after disable(), changes neither errors nor status of
\* any node and emits nothing.
C2_DisableCancelsRun ==
  \A n \in Nodes : \A r \in SubscribedRuns(n) : \A o \in BOOLEAN, e \in BOOLEAN :
    LET after(d) ==
          LET unchanged(a) == SameErrorsAndStatus(a, d) /\ a.trace = << >>
          IN unchanged(Arrive(d, n, r))
    IN after(Silent(disable(Cur, n, o, e, Deferred)))

\* C3: a node whose status is DISABLED has no errors.
C3_DisabledHasNoErrors ==
  \A n \in Nodes : status[n] = DISABLED => errors[n] = NoErrors

AnyChild(s, n, st) == \E c \in ChildSet(s, n) : s.status[c] = st

C4_InvalidIff(s, n) ==
  s.status[n] = INVALID
    <=> /\ s.status[n] # DISABLED
        /\ \/ s.errors[n] # NoErrors
           \/ AnyChild(s, n, INVALID) /\ ~AnyChild(s, n, PENDING)

C4_InvalidIffAsStated(s, n) ==
  s.status[n] = INVALID
    <=> /\ s.status[n] # DISABLED
        /\ (s.errors[n] # NoErrors \/ AnyChild(s, n, INVALID))

\* C4 (amended): after updateValueAndValidity, every node it recomputed is
\* INVALID exactly when it is enabled and either has errors of its own, or
\* has an INVALID child and no PENDING child.
C4_InvalidAfterRecompute ==
  \A n \in Nodes, o \in BOOLEAN, e \in BOOLEAN : \A av \in Outcomes(Reach(n, o)) :
    LET holds(u) == \A m \in Reach(n, o) : C4_InvalidIff(u, m)
    IN holds(updateValueAndValidity(Cur, n, o, e, av))

\* C4 as stated: after updateValueAndValidity, every node it recomputed is
\* INVALID exactly when it is enabled and has errors of its own or an
\* INVALID child, whatever the statuses of its other children.
C4_InvalidAfterRecomputeAsStated ==
  \A n \in Nodes, o \in BOOLEAN, e \in BOOLEAN : \A av \in Outcomes(Reach(n, o)) :
    LET holds(u) == \A m \in Reach(n, o) : C4_InvalidIffAsStated(u, m)
    IN holds(updateValueAndValidity(Cur, n, o, e, av))

\* A recompute of the group leaves it INVALID through an INVALID child,
\* and another leaves it PENDING although a child is INVALID.
C4_InvalidThroughChild ==
  /\ \E e \in BOOLEAN :
       LET case(u) == /\ u.status["grp"] = INVALID
                      /\ u.errors["grp"] = NoErrors
                      /\ AnyChild(u, "grp", INVALID)
       IN case(updateValueAndValidity(Cur, "grp", FALSE, e, Deferred))
  /\ \E e \in BOOLEAN, av \in AsyncOutcome :
       LET case(u) == /\ u.status["grp"] = PENDING
                      /\ AnyChild(u, "grp", INVALID)
       IN case(setValue(Cur, "name", "x", FALSE, e, av))

C5_PendingIff(s, n) ==
  s.status[n] = PENDING
    <=> /\ s.status[n] # DISABLED
        /\ s.status[n] # INVALID
        /\ (s.hasOwnPending[n] \/ AnyChild(s, n, PENDING))

C5_PendingIffEverywhere(s) == \A n \in Nodes : C5_PendingIff(s, n)

\* C5 as stated: in every reachable state a node is PENDING exactly when
\* it is enabled, not INVALID, and its own pending flag is set or a child is
\* PENDING.
C5_PendingInEveryState == C5_PendingIffEverywhere(Cur)

\* C5 (amended): the equivalence holds after construction and is preserved
\* by setValue, updateValueAndValidity, disable and enable invoked without
\* onlySelf, by setErrors and by the arrival of an asynchronous result;
\* markAsPending is left out (it sets PENDING without setting the flag).
C5_PendingPreserved ==
  C5_PendingIffEverywhere(Cur) =>
    /\ \A n \in Leaves, v \in Vals, e \in BOOLEAN : \A av \in Outcomes(Reach(n, FALSE)) :
         C5_PendingIffEverywhere(setValue(Cur, n, v, FALSE, e, av))
    /\ \A n \in Nodes, e \in BOOLEAN : \A av \in Outcomes(Reach(n, FALSE)) :
         C5_PendingIffEverywhere(updateValueAndValidity(Cur, n, FALSE, e, av))
    /\ \A n \in Nodes, e \in BOOLEAN : \A av \in Outcomes(Reach(n, FALSE) \ {n}) :
         C5_PendingIffEverywhere(disable(Cur, n, FALSE, e, av))
    /\ \A n \in Nodes, e \in BOOLEAN :
         \A av \in Outcomes(Reach(n, FALSE) \cup Descendants(n)) :
           C5_PendingIffEverywhere(enable(Cur, n, FALSE, e, av))
    /\ \A n \in Nodes, er \in ManualErrors, e \in BOOLEAN :
         C5_PendingIffEverywhere(setErrors(Cur, n, er, e))
    /\ \A n \in Nodes : \A r \in inflight[n] :
         C5_PendingIffEverywhere(Arrive(Cur, n, r))

\* The equivalence holds in a state where a leaf is PENDING through its own
\* run, the group is PENDING through that leaf, and the other leaf carries
\* errors set by setErrors.
C5_PendingThroughChild ==
  /\ C5_PendingIffEverywhere(Cur)
  /\ status["name"] = PENDING /\ hasOwnPending["name"]
  /\ status["grp"] = PENDING /\ ~hasOwnPending["grp"]
  /\ errors["age"] = {"server"}

C6_DisabledIff(s, n) ==
  s.status[n] = DISABLED
    <=> IF IsLeaf(n) THEN s.status[n] = DISABLED
        ELSE \A c \in ChildSet(s, n) : s.status[c] = DISABLED

C6_DisabledIffEverywhere(s) == \A n \in Nodes : C6_DisabledIff(s, n)

\* C6 as stated: in every reachable state a composite is DISABLED exactly
\* when every one of its children is disabled.
C6_DisabledInEveryState == C6_DisabledIffEverywhere(Cur)

\* C6 (amended): the equivalence holds after construction and is preserved
\* by setValue, updateValueAndValidity, disable and enable invoked without
\* onlySelf and by the arrival of an asynchronous result; with onlySelf the
\* composite is not recomputed.
C6_DisabledPreserved ==
  C6_DisabledIffEverywhere(Cur) =>
    /\ \A n \in Leaves, v \in Vals, e \in BOOLEAN : \A av \in Outcomes(Reach(n, FALSE)) :
         C6_DisabledIffEverywhere(setValue(Cur, n, v, FALSE, e, av))
    /\ \A n \in Nodes, e \in BOOLEAN : \A av \in Outcomes(Reach(n, FALSE)) :
         C6_DisabledIffEverywhere(updateValueAndValidity(Cur, n, FALSE, e, av))
    /\ \A n \in Nodes, e \in BOOLEAN : \A av \in Outcomes(Reach(n, FALSE) \ {n}) :
         C6_DisabledIffEverywhere(disable(Cur, n, FALSE, e, av))
    /\ \A n \in Nodes, e \in BOOLEAN :
         \A av \in Outcomes(Reach(n, FALSE) \cup Descendants(n)) :
           C6_DisabledIffEverywhere(enable(Cur, n, FALSE, e, av))
    /\ \A n \in Nodes : \A r \in inflight[n] :
         C6_DisabledIffEverywhere(Arrive(Cur, n, r))

\* Disabling the only enabled child makes the group DISABLED, and enabling
\* that child again makes it enabled.
C6_SingleChildFlips ==
  /\ C6_DisabledIffEverywhere(Cur)
  /\ status["age"] = DISABLED /\ status["name"] # DISABLED
  /\ status["grp"] # DISABLED
  /\ \E e \in BOOLEAN :
       LET flips(d) ==
             /\ d.status["grp"] = DISABLED
             /\ enable(d, "name", FALSE, e, Deferred).status["grp"] # DISABLED
       IN flips(disable(Cur, "name", FALSE, e, Deferred))

\* C7: each node has at most one subscribed run in flight.
C7_AtMostOneLiveRun ==
  \A n \in Nodes : Cardinality(SubscribedRuns(n)) <= 1

\* A node with MaxInFlight runs in flight, started by operations that
\* emit events, one of them subscribed.
C7_SeveralRunsOneLive ==
  \E n \in Nodes :
    /\ Cardinality(inflight[n]) = MaxInFlight
    /\ Cardinality(SubscribedRuns(n)) = 1
    /\ \A r \in inflight[n] : r.emitEvent /\ r.result = {"taken"}

RECURSIVE RecomputeTrace(_)
RecomputeTrace(n) ==
  << <<"value", n>>, <<"status", n>> >>
    \o (IF parent[n] = None THEN << >> ELSE RecomputeTrace(parent[n]))

\* C8: a propagating recompute started at a node (setValue or
\* updateValueAndValidity, onlySelf false, emitEvent true) emits the node's
\* value, then its status, then the parent's value, then the parent's
\* status, up to the root, and nothing else.
C8_ValueThenStatusBottomUp ==
  \A n \in Nodes : \A av \in Outcomes(Reach(n, FALSE)) :
    /\ updateValueAndValidity(Cur, n, FALSE, TRUE, av).trace = RecomputeTrace(n)
    /\ n \in Leaves =>
         \A v \in Vals : setValue(Cur, n, v, FALSE, TRUE, av).trace = RecomputeTrace(n)

\* C9 as stated: for every node, disable(); enable() restores the value
\* the node had and leaves the status a fresh updateValueAndValidity of the
\* node would leave.
C9_RoundTripAsStated ==
  \A n \in Nodes, o \in BOOLEAN, e \in BOOLEAN :
    \A av \in Outcomes(Reach(n, o) \cup Descendants(n)) :
      LET same(rt, u) == rt.value[n] = value[n] /\ rt.status[n] = u.status[n]
      IN same(enable(disable(Cur, n, o, e, av), n, o, e, av),
              updateValueAndValidity(Cur, n, o, e, av))

\* C9 (amended): for an enabled leaf, disable(); enable() restores the
\* value and leaves the status a fresh updateValueAndValidity would leave;
\* for every node, disable(); enable() leaves the values and statuses of
\* the whole tree that enable() alone leaves (every descendant is enabled
\* and validated again).
C9_RoundTrip ==
  \A n \in Nodes, o \in BOOLEAN, e \in BOOLEAN :
    \A av \in Outcomes(Reach(n, o) \cup Descendants(n)) :
      LET same(rt, u) == rt.value[n] = value[n] /\ rt.status[n] = u.status[n]
          asEnable(rt, en) == rt.value = en.value /\ rt.status = en.status
      IN /\ (IsLeaf(n) /\ status[n] # DISABLED) =>
              same(enable(disable(Cur, n, o, e, av), n, o, e, av),
                   updateValueAndValidity(Cur, n, o, e, av))
         /\ asEnable(enable(disable(Cur, n, o, e, av), n, o, e, av),
                     enable(Cur, n, o, e, av))

\* An enabled INVALID leaf, and a group with an individually disabled
\* child: the round trip restores the leaf and enables the group's child.
C9_RoundTripCases ==
  /\ status["age"] = INVALID
  /\ status["name"] = DISABLED
  /\ status["grp"] # DISABLED
  /\ enable(disable(Cur, "age", FALSE, TRUE, Deferred),
            "age", FALSE, TRUE, Deferred).status["age"] = INVALID
  /\ enable(disable(Cur, "grp", FALSE, TRUE, Deferred),
            "grp", FALSE, TRUE, Deferred).status["name"] # DISABLED

StatusOf(e) == IF e # NoErrors THEN INVALID ELSE VALID

\* C10: for a leaf with the required validator and no asynchronous
\* validator, construction with value v (enabled) and setValue(v) on the
\* enabled leaf leave value = v, errors = what the validator reports for v,
\* and status INVALID if there are errors, else VALID; null gives INVALID
\* with the required key, a non-empty value gives VALID without errors.
C10_LeafFollowsValidator ==
  \A n \in Leaves : ~asyncValidator[n] =>
    LET ok(u, v) == /\ u.value[n] = v
                    /\ u.errors[n] = Required(v)
                    /\ u.status[n] = StatusOf(Required(v))
                    /\ v = NullValue => u.status[n] = INVALID /\ u.errors[n] = {"required"}
                    /\ v # NullValue => u.status[n] = VALID /\ u.errors[n] = NoErrors
    IN /\ \A f \in FormStates : ~f.disabled => ok(NewFormControl(Blank, n, f), f.value)
       /\ status[n] # DISABLED =>
            \A v \in Vals, o \in BOOLEAN, e \in BOOLEAN :
              ok(setValue(Cur, n, v, o, e, Deferred), v)

\* The leaf built with null is INVALID with the required key, and setValue
\* of a non-empty value makes it VALID.
C10_RequiredThenValid ==
  /\ value["age"] = NullValue
  /\ status["age"] = INVALID /\ errors["age"] = {"required"}
  /\ setValue(Cur, "age", "x", FALSE, TRUE, Deferred).status["age"] = VALID

\* ---------------------------------------------------------------- C11
\* C11: for a leaf whose update strategy is on-blur, after onChange(v) with
\* v different from the current value, followed by onBlur(), the buffered
\* value has been applied through setValue: value == v with the errors of
\* the validator on v, and the leaf is dirty and touched.
C11_BlurAppliesBufferedValue ==
  \A v \in Vals :
    (get_updateOn(Cur, "name") = "blur" /\ v # value["name"]
       /\ status["name"] # DISABLED)
    => LET applied(r) == /\ r.value["name"] = v
                         /\ r.errors["name"] = _runValidator(r, "name")
                         /\ ~r.pristine["name"]
                         /\ r.touched["name"]
       IN applied(onBlur(onChange(Cur, "name", v, Deferred), "name"))

\* ---------------------------------------------------------------- C12
\* r is the tree after a reset of the leaf n to x, av the outcome of the
\* asynchronous validator on x.
C12_Restored(r, n, x, av) ==
  LET same(again) == /\ r.errors[n] = again.errors[n]
                     /\ r.status[n] = again.status[n]
  IN /\ r.value[n] = x
     /\ r.pristine[n] /\ ~r.touched[n]
     /\ ~r.pendingChange[n] /\ ~r.pendingDirty[n] /\ ~r.pendingTouched[n]
     /\ r.pendingValue[n] = r.value[n]
     /\ same(updateValueAndValidity(r, n, TRUE, FALSE, av))

\* C12: after reset(x) on a leaf, from any prior state, the value is x when
\* x is supplied and otherwise the default value (the construction-time
\* value if the leaf was built with initialValueIsDefault, else null); the
\* leaf is pristine and untouched; pendingChange, pendingDirty and
\* pendingTouched are false and pendingValue equals value; errors and status
\* are those of a recompute on the restored value.
C12_ResetRestores ==
  /\ \A f \in FormStates, av \in AsyncOutcome, onlySelf \in BOOLEAN, emitEvent \in BOOLEAN :
       C12_Restored(reset(Cur, "name", f, onlySelf, emitEvent, av), "name", f.value, av)
  /\ \A av \in AsyncOutcome, onlySelf \in BOOLEAN, emitEvent \in BOOLEAN :
       C12_Restored(ResetDefault(Cur, "name", onlySelf, emitEvent, av),
                    "name", defaultValue["name"], av)
  /\ \A vn \in Vals, on \in ControlOptions :
       BuildInput(vn, on, None, TRUE).defaultValue["name"]
         = IF on.initialValueIsDefault THEN vn ELSE NullValue

\* A leaf with buffered, unapplied input, dirty and touched, whose value is
\* null and whose default is the construction-time value: reset() restores
\* "x" and the errors of "x".
C12_ResetAfterInput ==
  /\ ~pristine["name"] /\ touched["name"]
  /\ pendingChange["name"] /\ pendingDirty["name"]
  /\ pendingValue["name"] # value["name"]
  /\ value["name"] = NullValue /\ errors["name"] = {"required"}
  /\ defaultValue["name"] = "x"
  /\ ResetDefault(Cur, "name", FALSE, TRUE, Deferred).value["name"] = "x"
  /\ ResetDefault(Cur, "name", FALSE, TRUE, Deferred).errors["name"] = NoErrors

\* ---------------------------------------------------------------- C13
RECURSIVE StatusTrace(_)
StatusTrace(n) ==
  << <<"status", n>> >>
    \o (IF parent[n] = None THEN << >> ELSE StatusTrace(parent[n]))

\* r is the tree after setErrors(e, {emitEvent}) on n.
C13_ErrorsSet(r, n, e, emitEvent) ==
  /\ r.errors = [errors EXCEPT ![n] = e]
  /\ r.value = value
  /\ r.hasOwnPending = hasOwnPending /\ r.inflight = inflight /\ r.sub = sub
  /\ \A m \in {n} \cup Ancestors(n) : r.status[m] = _calculateStatus(r, m)
  /\ \A m \in Nodes \ ({n} \cup Ancestors(n)) : r.status[m] = status[m]
  /\ r.trace = IF emitEvent THEN StatusTrace(n) ELSE << >>

\* C13: setErrors(e) on a node sets that node's errors to e without running
\* any validator, recomputes the status of the node and of every ancestor
\* up to the root, and changes no node's value and no ancestor's errors;
\* unless emitEvent is false it emits statusChanges, and never valueChanges,
\* on the node and then on each ancestor.
C13_SetErrorsFrame ==
  \A n \in Nodes, e \in ManualErrors, emitEvent \in BOOLEAN :
    C13_ErrorsSet(setErrors(Cur, n, e, emitEvent), n, e, emitEvent)

\* Manual errors on a leaf whose validator accepts its value: the leaf and
\* the group above it are INVALID.
C13_ManualErrorsOnValidLeaf ==
  /\ value["age"] = "x" /\ errors["age"] = {"server"}
  /\ status["age"] = INVALID /\ status["grp"] = INVALID
  /\ errors["grp"] = NoErrors

\* ---------------------------------------------------------------- C14
\* r is the tree after an operation that leaves the node n with the
\* synchronous validator vs and the asynchronous validator avs.
C14_OnlyValidators(r, n, vs, avs) ==
  LET InEffect(after) ==
        LET e == IF vs = "required" /\ value[n] = NullValue
                 THEN {"required"} ELSE NoErrors
        IN /\ after.errors[n] = e
           /\ after.hasOwnPending[n] = (avs /\ e = NoErrors)
  IN /\ r = [Cur EXCEPT !.validator[n] = vs, !.asyncValidator[n] = avs]
     /\ status[n] # DISABLED
          => InEffect(updateValueAndValidity(r, n, FALSE, TRUE, Deferred))

\* C14: setValidators, addValidators, removeValidators, clearValidators and
\* their asynchronous counterparts change only the node's validator
\* bookkeeping: value, errors, status, the hasOwnPendingAsyncValidator flag
\* and the outstanding asynchronous runs of every node stay unchanged and
\* nothing is emitted; the new validators determine errors only from the
\* next updateValueAndValidity on.
C14_ValidatorBookkeeping ==
  LET n == "name"
      old == validator[n]
      aold == asyncValidator[n]
  IN /\ \A vs \in ValidatorChoices :
          /\ C14_OnlyValidators(setValidators(Cur, n, vs), n, vs, aold)
          /\ C14_OnlyValidators(addValidators(Cur, n, vs), n,
               IF vs = "required" \/ old = "required" THEN "required" ELSE "none",
               aold)
          /\ C14_OnlyValidators(removeValidators(Cur, n, vs), n,
               IF old = "required" /\ vs # "required" THEN "required" ELSE "none",
               aold)
     /\ C14_OnlyValidators(clearValidators(Cur, n), n, "none", aold)
     /\ \A avs \in BOOLEAN :
          /\ C14_OnlyValidators(setAsyncValidators(Cur, n, avs), n, old, avs)
          /\ C14_OnlyValidators(addAsyncValidators(Cur, n, avs), n, old, avs \/ aold)
          /\ C14_OnlyValidators(removeAsyncValidators(Cur, n, avs), n, old, aold /\ ~avs)
     /\ C14_OnlyValidators(clearAsyncValidators(Cur, n), n, old, FALSE)

\* The required validator has been installed on a leaf whose value is null
\* while a run of the asynchronous validator is outstanding: the leaf has
\* no errors until the next recompute.
C14_NewValidatorNotYetInEffect ==
  /\ validator["name"] = "required" /\ value["name"] = NullValue
  /\ errors["name"] = NoErrors /\ status["name"] = PENDING
  /\ inflight["name"] # {}
  /\ updateValueAndValidity(Cur, "name", FALSE, TRUE, Deferred).errors["name"]
       = {"required"}

\* ---------------------------------------------------------------- C15
Composites == Controls \ Leaves

\* As stated: the flags of every composite are the derivation from its
\* descendants.
C15_FlagsDerived(s) ==
  \A c \in Composites :
    /\ s.pristine[c] <=> \A d \in Descendants(c) : s.pristine[d]
    /\ ~s.touched[c] <=> \A d \in Descendants(c) : ~s.touched[d]

\* One direction: a dirty (touched) descendant makes the composite dirty
\* (touched).
C15_FlagsCover(s) ==
  \A c \in Composites : \A d \in Descendants(c) :
    /\ ~s.pristine[d] => ~s.pristine[c]
    /\ s.touched[d] => s.touched[c]

\* C15 as stated: in every reachable state and for every composite,
\* pristine is true exactly when no descendant is dirty, and untouched is
\* true exactly when no descendant is touched.
C15_FlagsDerivedInEveryState == C15_FlagsDerived(Cur)

\* C15 (amended): a composite with a dirty descendant is dirty and a
\* composite with a touched descendant is touched; this holds after
\* construction and is preserved by markAsDirty, markAsTouched,
\* markAsPristine, markAsUntouched, enable, disable and reset invoked
\* without onlySelf.
C15_FlagsPreserved ==
  /\ C15_FlagsCover(BuildForm(Bare("x"), Bare(NullValue)))
  /\ C15_FlagsCover(Cur) =>
       /\ \A n \in Controls :
            /\ C15_FlagsCover(markAsDirty(Cur, n, FALSE))
            /\ C15_FlagsCover(markAsTouched(Cur, n, FALSE))
            /\ C15_FlagsCover(markAsPristine(Cur, n, FALSE))
            /\ C15_FlagsCover(markAsUntouched(Cur, n, FALSE))
            /\ \A e \in BOOLEAN :
                 /\ C15_FlagsCover(disable(Cur, n, FALSE, e, Deferred))
                 /\ C15_FlagsCover(enable(Cur, n, FALSE, e, Deferred))
       /\ \A n \in Leaves, f \in FormStates, e \in BOOLEAN :
            C15_FlagsCover(reset(Cur, n, f, FALSE, e, Deferred))

\* One leaf is dirty and touched, and so are the groups above it;
\* markAsPristine and markAsUntouched on the leaf re-derive the groups'
\* flags.
C15_DerivedAfterClearing ==
  LET cleared(r) == /\ r.pristine["grp"] /\ r.pristine["form"]
                    /\ ~r.touched["grp"] /\ ~r.touched["form"]
  IN /\ C15_FlagsCover(Cur)
     /\ ~pristine["name"] /\ pristine["age"] /\ ~pristine["grp"] /\ ~pristine["form"]
     /\ touched["name"] /\ ~touched["age"] /\ touched["grp"] /\ touched["form"]
     /\ cleared(markAsUntouched(markAsPristine(Cur, "name", FALSE), "name", FALSE))

\* ---------------------------------------------------------------- C16
\* The parent p stays dirty in r, and so does every dirty ancestor of p.
C16_StaysDirty(r, p) ==
  /\ ~r.pristine[p]
  /\ \A a \in Ancestors(p) : ~pristine[a] => ~r.pristine[a]

\* C16: if a parent is dirty while none of its children is dirty, then
\* disable() or enable() called on one of its children without onlySelf
\* leaves the parent, and every ancestor above it, dirty.
C16_ArtificiallyDirtyKept ==
  \A c \in Controls :
    (/\ parent[c] # None
     /\ ~pristine[parent[c]]
     /\ \A k \in ChildSet(Cur, parent[c]) : pristine[k])
    => \A e \in BOOLEAN :
         /\ C16_StaysDirty(disable(Cur, c, FALSE, e, Deferred), parent[c])
         /\ C16_StaysDirty(enable(Cur, c, FALSE, e, Deferred), parent[c])

\* grp and form are dirty while no leaf is: disabling a leaf and enabling
\* it again leaves both dirty.
C16_DirtyGroupCleanLeaves ==
  LET kept(r) == /\ r.status["name"] = DISABLED
                 /\ ~r.pristine["grp"] /\ ~r.pristine["form"]
      keptAgain(r) == /\ r.status["name"] # DISABLED
                      /\ ~r.pristine["grp"] /\ ~r.pristine["form"]
  IN /\ ~pristine["grp"] /\ ~pristine["form"]
     /\ pristine["name"] /\ pristine["age"]
     /\ status["name"] # DISABLED
     /\ kept(disable(Cur, "name", FALSE, TRUE, Deferred))
     /\ keptAgain(enable(disable(Cur, "name", FALSE, TRUE, Deferred),
                         "name", FALSE, TRUE, Deferred))

\* ---------------------------------------------------------------- C17
\* r is the tree after markAsPristine({onlySelf}) on n.
C17_MadePristine(r, n, onlySelf) ==
  /\ \A d \in {n} \cup Descendants(n) : r.pristine[d] /\ ~r.pendingDirty[d]
  /\ \A a \in Ancestors(n) :
       r.pristine[a] = IF onlySelf THEN pristine[a]
                       ELSE \A k \in ChildSet(Cur, a) : r.pristine[k]
  /\ \A m \in Controls \ ({n} \cup Descendants(n) \cup Ancestors(n)) :
       r.pristine[m] = pristine[m] /\ r.pendingDirty[m] = pendingDirty[m]
  /\ \A a \in Ancestors(n) : r.pendingDirty[a] = pendingDirty[a]
  /\ r.touched = touched /\ r.pendingTouched = pendingTouched

\* r is the tree after markAsUntouched({onlySelf}) on n.
C17_MadeUntouched(r, n, onlySelf) ==
  /\ \A d \in {n} \cup Descendants(n) : ~r.touched[d] /\ ~r.pendingTouched[d]
  /\ \A a \in Ancestors(n) :
       r.touched[a] = IF onlySelf THEN touched[a]
                      ELSE \E k \in ChildSet(Cur, a) : r.touched[k]
  /\ \A m \in Controls \ ({n} \cup Descendants(n) \cup Ancestors(n)) :
       r.touched[m] = touched[m] /\ r.pendingTouched[m] = pendingTouched[m]
  /\ \A a \in Ancestors(n) : r.pendingTouched[a] = pendingTouched[a]
  /\ r.pristine = pristine /\ r.pendingDirty = pendingDirty

\* C17: markAsPristine() on a node makes the node and every descendant
\* pristine and clears their pendingDirty, and then, unless onlySelf,
\* re-derives the pristine flag of each ancestor from its children up to
\* the root; markAsUntouched() does the same for touched and
\* pendingTouched. With onlySelf no ancestor flag changes.
C17_ClearDownDeriveUp ==
  \A n \in Controls, onlySelf \in BOOLEAN :
    /\ C17_MadePristine(markAsPristine(Cur, n, onlySelf), n, onlySelf)
    /\ C17_MadeUntouched(markAsUntouched(Cur, n, onlySelf), n, onlySelf)

\* grp is marked on a tree where name is dirty with buffered input, age is
\* dirty, and all nodes are touched: the leaves are cleared and form is
\* re-derived, or kept under onlySelf.
C17_ClearGroupWithDirtyLeaves ==
  LET cleared(r) == /\ r.pristine["name"] /\ r.pristine["age"]
                    /\ r.pristine["grp"] /\ r.pristine["form"]
                    /\ ~r.pendingDirty["name"]
      kept(r) == r.pristine["grp"] /\ ~r.pristine["form"]
      untouched(r) == ~r.touched["name"] /\ ~r.touched["form"]
                      /\ ~r.pendingTouched["name"]
  IN /\ ~pristine["name"] /\ ~pristine["age"] /\ ~pristine["grp"] /\ ~pristine["form"]
     /\ pendingDirty["name"] /\ pendingTouched["name"]
     /\ touched["name"] /\ touched["grp"] /\ touched["form"]
     /\ cleared(markAsPristine(Cur, "grp", FALSE))
     /\ kept(markAsPristine(Cur, "grp", TRUE))
     /\ untouched(markAsUntouched(Cur, "grp", FALSE))

\* ---------------------------------------------------------------- C18
\* C18: markAsPristine() is idempotent: calling it twice in a row on any
\* node leaves the node pristine after each call and leaves the whole tree
\* (flags of descendants and ancestors, values, statuses, errors) in the
\* same state as a single call; the second call causes no emission and no
\* further change to any ancestor.
C18_PristineIdempotent ==
  \A n \in Controls, onlySelf \in BOOLEAN :
    LET same(once) ==
          LET sameAs(twice) == /\ twice.pristine[n]
                               /\ twice.trace = << >>
                               /\ twice = once
          IN once.pristine[n] /\ sameAs(markAsPristine(once, n, onlySelf))
    IN same(markAsPristine(Cur, n, onlySelf))

\* A dirty leaf under groups that are dirty: the first call clears the leaf
\* and re-derives both groups, the second changes nothing.
C18_SecondCallChangesNothing ==
  LET settled(once) == /\ once.pristine["name"]
                       /\ once.pristine["grp"] /\ once.pristine["form"]
                       /\ markAsPristine(once, "name", FALSE) = once
  IN /\ ~pristine["name"] /\ pristine["age"]
     /\ ~pristine["grp"] /\ ~pristine["form"]
     /\ settled(markAsPristine(Cur, "name", FALSE))

\* ---------------------------------------------------------------- C19
\* C19: markAsTouched() / markAsDirty() without onlySelf set touched /
\* dirty on the node and on every ancestor up to the root; with onlySelf
\* they change only the node itself. In both cases no descendant's flag
\* changes and no node's value, errors or status changes, and nothing is
\* emitted.
C19_MarksGoUpOnly ==
  \A n \in Controls, onlySelf \in BOOLEAN :
    /\ markAsTouched(Cur, n, onlySelf)
         = [Cur EXCEPT !.touched =
              [m \in Controls |-> m \in Reach(n, onlySelf) \/ touched[m]]]
    /\ markAsDirty(Cur, n, onlySelf)
         = [Cur EXCEPT !.pristine =
              [m \in Controls |-> m \notin Reach(n, onlySelf) /\ pristine[m]]]

\* grp has been marked dirty with onlySelf and touched without: form is
\* touched and still pristine, the leaves are unmarked; marking grp dirty
\* without onlySelf makes form dirty too.
C19_MarkGroup ==
  LET up(r) == ~r.pristine["grp"] /\ ~r.pristine["form"]
               /\ r.pristine["name"] /\ r.pristine["age"]
  IN /\ ~pristine["grp"] /\ pristine["form"]
     /\ pristine["name"] /\ pristine["age"]
     /\ touched["grp"] /\ touched["form"]
     /\ ~touched["name"] /\ ~touched["age"]
     /\ up(markAsDirty(Cur, "grp", FALSE))

\* ---------------------------------------------------------------- C20
\* The nodes from n up to the root that have a strategy of their own.
C20_Configured(n) == {a \in {n} \cup Ancestors(n) : updateOn[a] # None}

\* The strategy of the configured node nearest to n, on-change if none.
C20_Nearest(n) ==
  IF C20_Configured(n) = {} THEN "change"
  ELSE updateOn[CHOOSE a \in C20_Configured(n) :
                  C20_Configured(n) \subseteq {a} \cup Ancestors(a)]

\* C20: a node's effective update strategy is its own configured strategy
\* if it has one, otherwise the effective strategy of its parent, resolved
\* through the ancestor chain, otherwise on-change; re-parenting a node
\* without its own setting changes its effective strategy to the new
\* parent's. onChange applies the value at once exactly on on-change.
C20_EffectiveStrategy ==
  /\ \A n \in Controls : get_updateOn(Cur, n) = C20_Nearest(n)
  /\ \A n \in {"age", "grp"} : \A p \in NewParents(n) :
       get_updateOn(setParent(Cur, n, p), n)
         = IF updateOn[n] # None THEN updateOn[n]
           ELSE IF p = None THEN "change"
           ELSE C20_Nearest(p)
  /\ \A v \in Vals \ {value["age"]} :
       (onChange(Cur, "age", v, Deferred).value["age"] = v)
         <=> C20_Nearest("age") = "change"

\* age, without a strategy of its own, has been moved from grp (on-blur)
\* to form (on-submit): it updates on submit, and moved back it updates on
\* blur.
C20_MovedUnderForm ==
  /\ parent["age"] = "form" /\ parent["grp"] = "form"
  /\ updateOn["age"] = None /\ updateOn["grp"] = "blur" /\ updateOn["form"] = "submit"
  /\ get_updateOn(Cur, "age") = "submit"
  /\ get_updateOn(setParent(Cur, "age", "grp"), "age") = "blur"
  /\ get_updateOn(setParent(Cur, "age", None), "age") = "change"

\* ------------------------------------------------------------------ C21
\* The children of n that are not DISABLED.
C21_Enabled(s, n) == {c \in ChildSet(s, n) : s.status[c] # DISABLED}

\* Every group holds the values of exactly its enabled children, and every
\* array those of its enabled children in child order.
C21_EnabledOnly(s) ==
  /\ \A g \in {"form"} :
       s.value[g] = [c \in C21_Enabled(s, g) |-> s.value[c]]
  /\ s.value["arr"] = FormArray_reduceValue(s, "arr")

\* getRawValue() holds every child, disabled or not; on a leaf it is the value.
C21_RawHoldsAll(s) ==
  /\ \A l \in Leaves : getRawValue(s, l) = s.value[l]
  /\ \A g \in {"form"} :
       /\ DOMAIN getRawValue(s, g) = ChildSet(s, g)
       /\ \A l \in ChildSet(s, g) \cap Leaves : getRawValue(s, g)[l] = s.value[l]
  /\ Len(getRawValue(s, "arr")) = Len(s.controls["arr"])
  /\ \A i \in 1..Len(s.controls["arr"]) :
       s.controls["arr"][i] \in Leaves
         => getRawValue(s, "arr")[i] = s.value[s.controls["arr"][i]]

\* C21 as stated: in every state of every group and array, value holds exactly
\* the values of the enabled children and getRawValue() those of all children.
C21_ValueOfEnabledChildren == C21_EnabledOnly(Cur) /\ C21_RawHoldsAll(Cur)

\* C21, amended: getRawValue() always holds the values of all children; the
\* constructed tree has every composite's value equal to the values of its
\* enabled children (an array in child order), and every operation that
\* propagates upwards (no onlySelf) keeps it so, a DISABLED composite
\* included.
C21_ValueAfterPropagation ==
  /\ C21_RawHoldsAll(Cur)
  /\ C21_EnabledOnly(BuildArray)
  /\ C21_EnabledOnly(Cur) =>
       /\ \A n \in Leaves, v \in Vals :
            C21_EnabledOnly(setValue(Cur, n, v, FALSE, TRUE, Deferred))
       /\ \A n \in {"name", "age", "arr", "form"} :
            /\ C21_EnabledOnly(disable(Cur, n, FALSE, TRUE, Deferred))
            /\ C21_EnabledOnly(enable(Cur, n, FALSE, TRUE, Deferred))
       /\ \A c \in Leaves :
            /\ C21_EnabledOnly(push(Cur, "arr", c, TRUE, Deferred))
            /\ C21_EnabledOnly(insert(Cur, "arr", 1, c, TRUE, Deferred))
       /\ \A i \in 1..Len(controls["arr"]) :
            C21_EnabledOnly(removeAt(Cur, "arr", i, TRUE, Deferred))
       /\ \A c \in {"name", "age", "arr"} :
            /\ C21_EnabledOnly(addControl(Cur, "form", c, TRUE, Deferred))
            /\ c \in ChildSet(Cur, "form") =>
                 C21_EnabledOnly(removeControl(Cur, "form", c, TRUE, Deferred))

\* Witness: the array holds age before name, name is disabled, and the array's
\* value is the one value of age while its raw value has both.
C21_DisabledChildSkipped ==
  /\ controls["arr"] = <<"age", "name">>
  /\ parent["arr"] = "form"
  /\ status["name"] = DISABLED
  /\ status["age"] # DISABLED
  /\ value["arr"] = <<value["age"]>>
  /\ value["form"] = [c \in {"arr"} |-> value["arr"]]
  /\ getRawValue(Cur, "form") = [c \in {"arr"} |-> <<value["age"], value["name"]>>]

\* ------------------------------------------------------------------ C22
\* The value and status emissions of the recomputes of the nodes ks, in order.
C22_Events(ks) ==
  [i \in 1..(2 * Len(ks)) |->
     <<IF i % 2 = 1 THEN "value" ELSE "status", ks[(i + 1) \div 2]>>]

\* The registered children of grp in the order of the keys handed over.
C22_Registered(s) ==
  LET registered(k) == k \in ChildSet(s, "grp")
  IN SelectSeq(KeyOrder, registered)

\* C22 as stated: Group.setValue(obj) fails synchronously with a
\* missing-value failure naming the key whenever a registered child key is
\* absent from obj, the tree unchanged; whenever every registered key is
\* present every child receives obj[key] through its own setValue without
\* propagating upwards, and then the group is recomputed upwards exactly once.
C22_SetValueAllPresent ==
  \A obj \in Objects, o \in BOOLEAN :
    LET missing == ChildSet(Cur, "grp") \ DOMAIN obj
        refused(r) == /\ r.thrown = "MISSING_CONTROL_VALUE"
                     /\ r.thrownKey \in missing
                     /\ r = Throw(Cur, r.thrown, r.thrownKey)
        done(r) == /\ r.thrown = None
                   /\ \A k \in ChildSet(Cur, "grp") : r.value[k] = obj[k]
                   /\ r.trace = C22_Events(C22_Registered(Cur)) \o C22_Events(<<"grp">>)
                                  \o (IF o THEN << >> ELSE C22_Events(<<"form">>))
        ok(r) == IF missing # {} THEN refused(r) ELSE done(r)
    IN ok(FormGroup_setValue(Cur, "grp", obj, o, TRUE, Deferred))

\* C22, amended: a registered key absent from obj gives the missing-value
\* failure naming such a key, the tree unchanged; with exactly the registered
\* keys every child receives obj[key] through its own setValue without
\* propagating upwards and the group is then recomputed upwards exactly
\* once; with every registered key present and a further key that is not
\* registered the call fails with a missing-control failure naming such a
\* key (a no-controls failure on a group without children), and the group
\* and its parent are not recomputed.
C22_GroupSetValue ==
  \A obj \in Objects, o \in BOOLEAN :
    LET missing == ChildSet(Cur, "grp") \ DOMAIN obj
        extra == DOMAIN obj \ ChildSet(Cur, "grp")
        refused(r) == /\ r.thrown = "MISSING_CONTROL_VALUE"
                     /\ r.thrownKey \in missing
                     /\ r = Throw(Cur, r.thrown, r.thrownKey)
        done(r) == /\ r.thrown = None
                   /\ \A k \in ChildSet(Cur, "grp") : r.value[k] = obj[k]
                   /\ r.trace = C22_Events(C22_Registered(Cur)) \o C22_Events(<<"grp">>)
                                  \o (IF o THEN << >> ELSE C22_Events(<<"form">>))
        unknown(r) == /\ r.thrown = IF ChildSet(Cur, "grp") = {}
                                    THEN "NO_CONTROLS" ELSE "MISSING_CONTROL"
                      /\ r.thrown = "MISSING_CONTROL" => r.thrownKey \in extra
                      /\ \A g \in {"grp", "form"} :
                           /\ r.value[g] = value[g]
                           /\ r.status[g] = status[g]
                           /\ r.errors[g] = errors[g]
                      /\ \A i \in 1..Len(r.trace) : r.trace[i][2] \in Leaves
        ok(r) == IF missing # {} THEN refused(r)
                 ELSE IF extra = {} THEN done(r) ELSE unknown(r)
    IN ok(FormGroup_setValue(Cur, "grp", obj, o, TRUE, Deferred))

\* Witness: the group holds name only; an object without name fails naming
\* name, and an object with name and age sets name and then fails naming
\* age, which is not registered.
C22_UnregisteredKey ==
  /\ controls["grp"] = <<"name">>
  /\ value["name"] = "x"
  /\ FormGroup_setValue(Cur, "grp", [k \in {"age"} |-> "x"],
                        FALSE, TRUE, Deferred).thrownKey = "name"
  /\ FormGroup_setValue(Cur, "grp", [k \in Leaves |-> NullValue],
                        FALSE, TRUE, Deferred).thrownKey = "age"
  /\ FormGroup_setValue(Cur, "grp", [k \in Leaves |-> NullValue],
                        FALSE, TRUE, Deferred).value["name"] = NullValue

\* ------------------------------------------------------------------ C23
\* C23: Group.patchValue(obj) never fails on a missing key, hands obj[key] to
\* the children whose key obj has, leaves the value of every other child as
\* it was, and recomputes the group: {name: "x", age: null} patched with
\* {age: "x"} is {name: "x", age: "x"}.
C23_GroupPatchValue ==
  \A obj \in Objects, o \in BOOLEAN :
    LET ok(r) ==
          /\ r.thrown = None
          /\ \A k \in ChildSet(Cur, "grp") \cap DOMAIN obj : r.value[k] = obj[k]
          /\ \A k \in Leaves \ (ChildSet(Cur, "grp") \cap DOMAIN obj) :
               r.value[k] = value[k]
          /\ r.controls = controls
          /\ r.status["grp"] # DISABLED =>
               r.value["grp"] = [k \in {c \in ChildSet(Cur, "grp") :
                                         r.status[c] # DISABLED} |-> r.value[k]]
    IN ok(FormGroup_patchValue(Cur, "grp", obj, o, TRUE, Deferred))

\* Witness: both leaves hold null, and patching age alone changes age alone.
C23_PatchAgeOnly ==
  /\ value["grp"] = [k \in Leaves |-> NullValue]
  /\ FormGroup_patchValue(Cur, "grp", [k \in {"age"} |-> "x"],
                          FALSE, TRUE, Deferred).value["grp"]
       = [k \in Leaves |-> IF k = "age" THEN "x" ELSE NullValue]

\* ------------------------------------------------------------------ C24
\* C24: Array.removeAt(i) removes the child at position i, every later child
\* moves one position down, so that get(j) for j >= i is the node formerly at
\* j + 1, and the array is recomputed: its value is the ordered sequence of
\* the values of the remaining enabled children.
C24_RemoveAt ==
  \A i \in 1..Len(controls["arr"]) :
    LET at(s, j) == get(s, "arr", ArrayPath(<<CHOOSE k \in DOMAIN PositionOf :
                                                PositionOf[k] = j>>))
        ok(r) ==
          /\ Len(r.controls["arr"]) = Len(controls["arr"]) - 1
          /\ r.parent[controls["arr"][i]] = None
          /\ \A j \in 1..(i - 1) : at(r, j) = controls["arr"][j]
          /\ \A j \in i..(Len(controls["arr"]) - 1) : at(r, j) = at(Cur, j + 1)
          /\ at(r, Len(controls["arr"])) = None
          /\ r.value["arr"] = FormArray_reduceValue(r, "arr")
          /\ Len(r.value["arr"])
               = Cardinality({c \in ChildSet(Cur, "arr") \ {controls["arr"][i]} :
                                r.status[c] # DISABLED})
    IN ok(removeAt(Cur, "arr", i, TRUE, Deferred))

\* Witness: the array [name, age] holds ["null", "x"], and after removing the
\* first child it holds ["x"] with age at the first position.
C24_RemoveFirstOfTwo ==
  /\ controls["arr"] = <<"name", "age">>
  /\ value["arr"] = <<NullValue, "x">>
  /\ removeAt(Cur, "arr", 1, TRUE, Deferred).value["arr"] = <<"x">>
  /\ get(removeAt(Cur, "arr", 1, TRUE, Deferred), "arr", ArrayPath(<<"0">>)) = "age"

\* ------------------------------------------------------------------ C25
\* The keys asked of the group: those of the nodes, and a name that no child
\* is registered under but every object inherits.
C25_Keys == {"name", "age", "arr"} \cup InheritedKeys

C26_Keys == {"arr", "name", "0", "1"}
C26_KeySeqs == UNION {[1..l -> C26_Keys] : l \in 0..2}
C26_Strings == UNION {[1..l -> C26_Keys \cup {"."}] : l \in 0..3}

\* The keys joined by dots, as pieces of a string.
C26_Dotted(ks) ==
  [i \in 1..(2 * Len(ks) - 1) |-> IF i % 2 = 1 THEN ks[(i + 1) \div 2] ELSE "."]

\* C26: get(path) is none for a null path and for an empty key sequence, and
\* none for every path on a leaf; otherwise it looks the first segment up
\* among the node's children, is none if there is no match and continues
\* from the child with the remaining segments if there is; a dotted string
\* resolves as the sequence of its keys.
C26_GetWalksSegments ==
  \A n \in {"form", "arr", "name"} :
    /\ get(Cur, n, NullPath) = None
    /\ get(Cur, n, ArrayPath(<< >>)) = None
    /\ \A ks \in C26_KeySeqs \ {<< >>} :
         LET child == _find(Cur, n, <<Head(ks)>>)
         IN /\ get(Cur, n, ArrayPath(ks))
                 = IF child = None THEN None
                   ELSE IF Len(ks) = 1 THEN child
                   ELSE get(Cur, child, ArrayPath(Tail(ks)))
            /\ get(Cur, n, StringPath(C26_Dotted(ks))) = get(Cur, n, ArrayPath(ks))
            /\ get(Cur, n, ArrayPath(ks)) # None
                 => /\ parent[get(Cur, n, ArrayPath(ks))] # None
                    /\ n \in Ancestors(get(Cur, n, ArrayPath(ks)))
    /\ \A c \in ChildSet(Cur, n) \cap C26_Keys :
         ~IsArray(n) => get(Cur, n, ArrayPath(<<c>>)) = c
    /\ \A k \in DOMAIN PositionOf :
         IsArray(n) /\ PositionOf[k] <= Len(controls[n])
           => get(Cur, n, ArrayPath(<<k>>)) = controls[n][PositionOf[k]]
    /\ \A ps \in C26_Strings :
         /\ IsLeaf(n) => get(Cur, n, StringPath(ps)) = None
         /\ get(Cur, n, StringPath(ps)) \in Controls \cup {None}
         /\ (\E i \in 1..Len(ps) : ps[i] = "." /\ (i = 1 \/ i = Len(ps)))
              => get(Cur, n, StringPath(ps)) = None

\* Witness: age was moved before name in the array under form, and the path
\* "arr.0" from form resolves to age, "arr.1" to name, "arr.name" to none.
C26_ResolvesThroughArray ==
  /\ controls["form"] = <<"arr">>
  /\ controls["arr"] = <<"age", "name">>
  /\ get(Cur, "form", StringPath(<<"arr", ".", "0">>)) = "age"
  /\ get(Cur, "form", ArrayPath(<<"arr", "1">>)) = "name"
  /\ get(Cur, "form", StringPath(<<"arr", ".", "name">>)) = None

\* ------------------------------------------------------------------ C27
\* The callbacks of one tracker call: the installed forceUpdate once, seeing
\* the new status, or none.
C27_Rendered(st) == IF load.installed THEN <<<<"forceUpdate", st>>>> ELSE << >>

\* C27: the tracker's status is empty until the first call and then one of
\* PROCESSING, SUCCESS, FAILURE; from any status processing(p) sets
\* PROCESSING and params p, succeed(d) SUCCESS and data d, failed(e) FAILURE
\* and error e, nothing else; each call invokes the installed forceUpdate
\* exactly once after the change, and no callback if none is installed.
C27_TrackerStatus ==
  /\ load.status \in {"", "PROCESSING", "SUCCESS", "FAILURE"}
  /\ load.status = "" => load = NewAsyncProcessor(load.installed)
  /\ \A v \in Payloads :
       /\ processing(load, v) = [load EXCEPT !.status = "PROCESSING", !.params = v,
                                             !.calls = C27_Rendered("PROCESSING")]
       /\ succeed(load, v) = [load EXCEPT !.status = "SUCCESS", !.data = v,
                                          !.calls = C27_Rendered("SUCCESS")]
       /\ failed(load, v) = [load EXCEPT !.status = "FAILURE", !.error = v,
                                         !.calls = C27_Rendered("FAILURE")]

\* Witness: a tracker with forceUpdate installed that was processing with 0,
\* succeeded with 5 and then failed.
C27_FailedAfterSuccess ==
  /\ load.installed
  /\ load.status = "FAILURE"
  /\ load.params = "0"
  /\ load.data = "5"
  /\ load.error = "5"

\* ------------------------------------------------------------------ C28
\* C28: retry(callback, params) invokes the callback exactly once, with the
\* params when they are supplied and otherwise with the params recorded by
\* the most recent processing(), and leaves status, data, error and params
\* unchanged.
C28_RetryParams ==
  \A p \in Payloads :
    retry(load, p) =
      [load EXCEPT !.calls = <<<<"callback", IF p = Undefined THEN load.params ELSE p>>>>]

\* ------------------------------------------------------------------ C29
\* The run of name that _asyncValidationSubscription refers to is in flight.
C29_Stalled(s) ==
  /\ s.status["name"] = PENDING
  /\ s.hasOwnPending["name"]
  /\ \E r \in s.inflight["name"] : r.handle

\* C29: while the asynchronous validator run of the enabled node name has
\* not settled, name keeps status PENDING and its own-pending flag through
\* every step that is not an operation on name (enable and disable of its
\* group are, they recurse into it): operations on age and on the group, and
\* the late results of the superseded runs of name.  Nothing but the result
\* of the run ends the pending state.
C29_PendingUntilSettled ==
  C29_Stalled(Cur) =>
    /\ \A v \in Vals, o \in BOOLEAN, e \in BOOLEAN, av \in AsyncOutcome :
         /\ C29_Stalled(setValue(Cur, "age", v, o, e, av))
         /\ C29_Stalled(disable(Cur, "age", o, e, av))
         /\ C29_Stalled(enable(Cur, "age", o, e, av))
         /\ \A m \in {"age", "grp"} :
              C29_Stalled(updateValueAndValidity(Cur, m, o, e, av))
    /\ \A m \in {"age", "grp"}, e \in ManualErrors :
         C29_Stalled(setErrors(Cur, m, e, TRUE))
    /\ \A r \in {q \in inflight["name"] : ~q.handle} :
         C29_Stalled(Arrive(Cur, "name", r))

\* Witness: name is pending on its second run while the result of the first,
\* superseded run is still to arrive, and the group is pending with it.
C29_PendingWithStaleRun ==
  /\ C29_Stalled(Cur)
  /\ Cardinality(inflight["name"]) = 2
  /\ status["grp"] = PENDING
  /\ status["age"] = VALID

\* ------------------------------------------------------------------ C30
\* C30: every node is held in the child collection of at most one composite,
\* and that composite is the node's parent.
C30_HeldByParentOnly ==
  \A n \in Controls :
    /\ Cardinality({c \in Composites : n \in ChildSet(Cur, c)}) <= 1
    /\ \A c \in Composites : n \in ChildSet(Cur, c) => parent[n] = c

\* ------------------------------------------------------------------ C31
\* The status emissions of a settling run on the node n and its ancestors.
C31_StatusEvents(n, emitEvent) ==
  IF ~emitEvent THEN << >>
  ELSE IF parent[n] = None THEN <<<<"status", n>>>>
  ELSE <<<<"status", n>>, <<"status", parent[n]>>>>

\* C31: when the un-cancelled run of the enabled node name settles with the
\* result e, the own-pending flag is false before the status is recomputed,
\* errors is e, the status of name is INVALID when e is non-empty and VALID
\* when it is empty, and the status of every ancestor is recomputed from its
\* children in the same step.
C31_SettleRecomputes ==
  \A r \in {q \in inflight["name"] : q.subscribed} :
    LET ok(s) ==
          /\ ~s.hasOwnPending["name"]
          /\ s.errors["name"] = r.result
          /\ s.status["name"] = IF r.result # NoErrors THEN INVALID ELSE VALID
          /\ \A a \in Ancestors("name") :
               /\ s.status[a] = _calculateStatus(s, a)
               /\ (r.result # NoErrors /\ s.errors[a] = NoErrors) => s.status[a] = INVALID
               /\ s.status[a] # DISABLED
          /\ s.trace = C31_StatusEvents("name", r.emitEvent)
          /\ r \notin s.inflight["name"]
    IN status["name"] # DISABLED => ok(Arrive(Cur, "name", r))

\* Witness: name is pending under a pending group whose other leaf is valid,
\* and the run that is about to settle reports an error.
C31_RunAboutToFail ==
  /\ status["name"] = PENDING
  /\ status["grp"] = PENDING
  /\ status["age"] = VALID
  /\ value["age"] = "x"
  /\ \E r \in inflight["name"] :
       /\ r.subscribed /\ r.result # NoErrors
       /\ Arrive(Cur, "name", r).status["grp"] = INVALID

\* ------------------------------------------------------------------ C32
\* Nothing is emitted by the call that produced s, and nothing by the later
\* arrival of the result of a run of n that the call started.
C32_Silent(s, n) ==
  /\ s.trace = << >>
  /\ \A r \in {q \in s.inflight[n] \ inflight[n] : q.handle /\ q.subscribed} :
       /\ ~r.emitEvent
       /\ Arrive(s, n, r).trace = << >>

\* C32: setValue and updateValueAndValidity called with emitEvent false emit
\* no valueChanges and no statusChanges event on the node or on any ancestor,
\* and the later settling of the run they started emits none either.
C32_NoEventsWhenSilenced ==
  \A o \in BOOLEAN, av \in AsyncOutcome :
    /\ \A n \in Leaves, v \in Vals :
         C32_Silent(setValue(Cur, n, v, o, FALSE, av), n)
    /\ \A n \in Nodes :
         C32_Silent(updateValueAndValidity(Cur, n, o, FALSE, av), n)

\* Witness: the current run of name was started by a silenced call after an
\* earlier run, and its result, an error, is still to arrive.
C32_SilentRunInFlight ==
  /\ status["name"] = PENDING
  /\ Cardinality(inflight["name"]) = 2
  /\ \E r \in inflight["name"] :
       r.handle /\ r.subscribed /\ ~r.emitEvent /\ r.result # NoErrors

\* ------------------------------------------------------------------ C33
\* The runs of n in s that a subscriber still waits for.
C33_Subscribed(s, n) == {r \in s.inflight[n] : r.subscribed}

\* C33: updateValueAndValidity starts the asynchronous validator only when
\* the node is enabled, has an asynchronous validator and its synchronous
\* validator reports no error; when the synchronous validator of an enabled
\* node reports errors, the previous run is cancelled, no run is started,
\* the own-pending flag is false and the status is INVALID.
C33_AsyncOnlyAfterSyncPasses ==
  \A n \in Nodes, o \in BOOLEAN, e \in BOOLEAN :
    LET enabled == ~_allControlsDisabled(Cur, n)
        rejected(s) == /\ C33_Subscribed(s, n) = {}
                       /\ ~s.hasOwnPending[n]
                       /\ s.status[n] = INVALID
                       /\ s.errors[n] = _runValidator(Cur, n)
        started(s) == /\ Cardinality(C33_Subscribed(s, n)) = 1
                      /\ \A r \in C33_Subscribed(s, n) : r.handle /\ r.emitEvent = e
                      /\ s.status[n] = PENDING
                      /\ s.hasOwnPending[n]
        ok(s) ==
          /\ ~enabled => /\ s.inflight[n] = inflight[n]
                         /\ s.hasOwnPending[n] = hasOwnPending[n]
                         /\ s.sub[n] = sub[n]
          /\ (enabled /\ ~asyncValidator[n]) =>
               /\ C33_Subscribed(s, n) = {}
               /\ ~s.hasOwnPending[n]
          /\ (enabled /\ _runValidator(Cur, n) # NoErrors) => rejected(s)
          /\ (enabled /\ asyncValidator[n] /\ _runValidator(Cur, n) = NoErrors)
               => started(s)
    IN ok(updateValueAndValidity(Cur, n, o, e, [result |-> {"taken"}, immediate |-> FALSE]))

\* Witness: name holds no value and is INVALID by its synchronous validator
\* while the run that was cancelled for it is still in flight, unsubscribed.
C33_CancelledForSyncError ==
  /\ status["name"] = INVALID
  /\ errors["name"] # NoErrors
  /\ ~hasOwnPending["name"]
  /\ \E r \in inflight["name"] : r.handle /\ ~r.subscribed
  /\ C33_Subscribed(Cur, "name") = {}

\* ------------------------------------------------------------------ C34
\* C34: on a leaf whose effective strategy is submit, the submit flush marks
\* the leaf dirty if pendingDirty and touched if pendingTouched, hands
\* pendingValue to setValue if pendingChange, and returns true exactly when
\* it did the latter; on a leaf that updates on change or on blur it returns
\* false and changes nothing.
C34_SubmitFlush ==
  \A av \in AsyncOutcome :
    LET flushed(s) ==
          /\ s.pristine["name"] = (pristine["name"] /\ ~pendingDirty["name"])
          /\ s.touched["name"] = (touched["name"] \/ pendingTouched["name"])
          /\ s.returned = pendingChange["name"]
          /\ s.value["name"] = IF pendingChange["name"] THEN pendingValue["name"]
                               ELSE value["name"]
          /\ ~av.immediate =>
               s.trace = IF pendingChange["name"]
                         THEN <<<<"value", "name">>, <<"status", "name">>>>
                         ELSE << >>
          /\ (pendingChange["name"] /\ s.status["name"] # DISABLED /\ ~av.immediate)
               => s.errors["name"] = _runValidator(s, "name")
          /\ ~pendingChange["name"] =>
               /\ s.errors = errors /\ s.status = status /\ s.inflight = inflight
        ok(s) == IF get_updateOn(Cur, "name") = "submit" THEN flushed(s)
                 ELSE s = Cur
    IN ok(_syncPendingControls(Cur, "name", av))

\* Witness: a leaf on the submit strategy that the flush has marked touched
\* and dirty and whose value is the buffered one, different from the default.
C34_Flushed ==
  /\ get_updateOn(Cur, "name") = "submit"
  /\ touched["name"]
  /\ ~pristine["name"]
  /\ pendingChange["name"]
  /\ value["name"] = pendingValue["name"]
  /\ value["name"] = NullValue

\* C35: on a leaf whose strategy is blur or submit, onChange(v) changes
\* nothing but pendingValue, pendingChange and pendingDirty of that leaf:
\* value, errors, status, pristine and touched of every node, the runs, the
\* subscriptions and the own-pending flags are as before, nothing is
\* emitted and nothing fails.
C35_OnChangeBuffers ==
  \A v \in Vals, av \in AsyncOutcome :
    LET restored(s) ==
          [s EXCEPT !.pendingValue["name"] = pendingValue["name"],
                    !.pendingChange["name"] = pendingChange["name"],
                    !.pendingDirty["name"] = pendingDirty["name"]]
        ok(s) == /\ restored(s) = Cur
                 /\ s.pendingValue["name"] = v
                 /\ s.pendingChange["name"]
                 /\ s.pendingDirty["name"]
                      = (pendingDirty["name"] \/ v # value["name"])
    IN get_updateOn(Cur, "name") \in {"blur", "submit"}
         => ok(onChange(Cur, "name", v, av))

\* onChange has buffered an input that differs from the value of the leaf,
\* which is still pristine, while a run of its asynchronous validator is
\* outstanding.
C35_BufferedInput ==
  /\ get_updateOn(Cur, "name") \in {"blur", "submit"}
  /\ pendingChange["name"]
  /\ pendingDirty["name"]
  /\ pendingValue["name"] # value["name"]
  /\ pristine["name"]
  /\ \E r \in inflight["name"] : r.subscribed

\* C36: setValue(v) on a DISABLED leaf sets its value to v and leaves it
\* DISABLED with errors null; no validator is run, and the outstanding
\* asynchronous runs, the subscription and the own-pending flag of the leaf
\* are as before.
C36_DisabledLeafSetValue ==
  \A n \in Leaves, v \in Vals, o \in BOOLEAN, e \in BOOLEAN :
    \A av \in Outcomes(Reach(n, o)) :
      LET ok(s) == /\ s.value[n] = v
                   /\ s.status[n] = DISABLED
                   /\ s.errors[n] = NoErrors
                   /\ s.inflight[n] = inflight[n]
                   /\ s.sub[n] = sub[n]
                   /\ s.hasOwnPending[n] = hasOwnPending[n]
      IN status[n] = DISABLED => ok(setValue(Cur, n, v, o, e, av))

\* C37: every leaf operation (setValue, onChange, onBlur) completes without
\* failure whether or not a forceUpdate callback is installed on the root,
\* and onBlur on a leaf whose strategy is change or blur leaves the leaf
\* touched also when no callback is installed.
C37_NoFailureWithoutCallback ==
  \A v \in Vals, av \in AsyncOutcome :
    /\ setValue(Cur, "name", v, FALSE, TRUE, av).thrown = None
    /\ onChange(Cur, "name", v, av).thrown = None
    /\ onBlur(Cur, "name").thrown = None
    /\ get_updateOn(Cur, "name") # "submit" => onBlur(Cur, "name").touched["name"]

\* C38 (as stated): once no operation is invoked any more and every started
\* run settles, eventually no node is PENDING and no node has its
\* own-pending flag set, whether or not the operations used onlySelf.
C38_EventuallyNothingPending ==
  <>[][Settles]_vars
    => <>[](\A n \in Nodes : status[n] # PENDING /\ ~hasOwnPending[n])

\* C38 (amended): once no operation is invoked any more and every started
\* run settles, eventually no run is outstanding, no node has its
\* own-pending flag set and no leaf is PENDING.
C38_EventuallyNoRunPending ==
  <>[][Settles]_vars
    => <>[](/\ \A n \in Nodes : inflight[n] = {} /\ ~hasOwnPending[n]
            /\ \A n \in Leaves : status[n] # PENDING)

\* No run is outstanding and no own-pending flag is set, and the group is
\* still PENDING although none of its children is: the leaf was recomputed
\* with onlySelf after its run had made the group PENDING.
C38_StalePendingGroup ==
  /\ \A n \in Nodes : inflight[n] = {} /\ ~hasOwnPending[n]
  /\ status["grp"] = PENDING
  /\ \A n \in Leaves : status[n] # PENDING

\* C39: after loadSucceed(data) the load status is SUCCESS, the loaded data
\* is data, the form is createForm(data, previous form) with forceUpdate
\* installed and the callback is scheduled; and whenever a scheduled
\* onFormLoaded callback is invoked, it is handed the data of the call that
\* scheduled it and the form created from that data, also when loadSucceed
\* has been called again in between.
C39_LoadedWithOwnForm ==
  /\ \A d \in Payloads :
       LET ok(s) == /\ s.load.status = "SUCCESS"
                    /\ s.load.data = d
                    /\ s.formConfig.form = [createForm(d, formConfig.form)
                                              EXCEPT !.forceUpdate = TRUE]
                    /\ s.formConfig.timers =
                         IF formConfig.onFormLoaded
                         THEN Append(formConfig.timers, d) ELSE formConfig.timers
       IN ok(loadSucceed(Cur, d))
  /\ formConfig.timers # << >> =>
       LET ok(s) == /\ Len(s.formConfig.loaded) = 1
                    /\ s.formConfig.loaded[1][2] = Head(formConfig.timers)
                    /\ s.formConfig.loaded[1][1].created
                    /\ s.formConfig.loaded[1][1].from = Head(formConfig.timers)
       IN ok(timeout(Cur))

\* C40: each trigger of the tracker leaves the fields of the other triggers
\* as they are: processing keeps data and error, succeed keeps params and
\* error, failed keeps params and data, and none changes whether forceUpdate
\* is installed.  So a SUCCESS status can stand beside the error of an
\* earlier failure, and a FAILURE status beside the data of an earlier
\* success.
C40_TriggersKeepOtherFields ==
  \A v \in Payloads :
    LET keepsP(r) == /\ r.data = load.data
                     /\ r.error = load.error
                     /\ r.installed = load.installed
        keepsS(r) == /\ r.params = load.params
                     /\ r.error = load.error
                     /\ r.installed = load.installed
        keepsF(r) == /\ r.params = load.params
                     /\ r.data = load.data
                     /\ r.installed = load.installed
    IN /\ keepsP(processing(load, v))
       /\ keepsS(succeed(load, v))
       /\ keepsF(failed(load, v))

\* Witness: the tracker failed with 5 and then succeeded with 0: the status
\* is SUCCESS while the error is still 5.
C40_SuccessBesideError ==
  /\ load.status = "SUCCESS"
  /\ load.data = "0"
  /\ load.error = "5"

====
